---- MODULE Spec2Model ----
(***************************************************************************)
(* Offscreen rasterization core: EGL offscreen contexts, the rasterizer    *)
(* and the rasterizer that owns its context.  Threads run the operations   *)
(* one native call at a time; the EGL binding is per thread, the GL state  *)
(* is per context.                                                         *)
(***************************************************************************)
EXTENDS Integers, FiniteSets, Sequences, TLC

\* ------------------------------------------------------------------ bounds
NumThreads == 2
NumInstances == 2
NumStandalone == 1
MaxOps == 3
MaxFaults == 1
MaxPoints == 1
MaxConfigs == 2
MaxShaders == 2
MaxPixels == 2
MaxRenders == 2
MaxUploads == 3

\* EGL_NO_CONTEXT
NoContext == 0
\* const EGLint kRequestedNumConfigs = 1
kRequestedNumConfigs == 1

Threads == 1..NumThreads
\* RasterizerWithContext objects; instance i owns the EGL context i.
Instances == 1..NumInstances
\* EGLOffscreenContext objects used directly by the callers.
Standalone == (NumInstances + 1)..(NumInstances + NumStandalone)
Contexts == Instances \cup Standalone

VARIABLES
  current,        \* EGL: set of <<thread, context>>, the contexts current on threads
  egl,            \* EGL: per context, which native objects exist (context_, pixel_buffer_surface_, display_)
  teardown,       \* per context, the destructor steps executed so far, in order
  th,             \* per thread, the call it is executing and its position
  faults,         \* number of native calls that failed so far
  aborted,        \* exit(-1) was called
  glc,            \* GL: per context, its objects and state
  inst,           \* per RasterizerWithContext, its members
  result,         \* per thread, the caller's result buffer
  num_successes,  \* per thread, the counter of the render routine
  renders,        \* per thread, the number of runs of the render routine
  red_clear,      \* the factory's static clear colour
  ssbUsed,        \* SetShaderStorageBuffer has been called
  ops,            \* number of calls made so far
  call,           \* single-threaded use: the call being executed and its locals
  nat,            \* single-threaded use: the native EGL objects that exist
  gpu,            \* single-threaded use: the GL objects of the current context
  pool            \* the resource pool: its resources and the workers leasing them

eglVars == <<current, egl, teardown>>
glVars == <<glc, inst, result>>
testVars == <<num_successes, renders, red_clear, ssbUsed>>
\* The state of the single-threaded use of the components (the unit tests).
unitVars == <<call, nat, gpu, pool>>
\* The state of the threads sharing rasterizers with contexts.
sharedVars == <<current, egl, teardown, th, faults, aborted, glc, inst, result,
                num_successes, renders, red_clear, ssbUsed, ops, pool>>
\* Everything but the resource pool.
poolFrame == <<current, egl, teardown, th, faults, aborted, glc, inst, result,
               num_successes, renders, red_clear, ssbUsed, ops, call, nat, gpu>>
vars == <<current, egl, teardown, th, faults, aborted, glc, inst, result,
          num_successes, renders, red_clear, ssbUsed, ops, unitVars>>

\* ------------------------------------------------------------------ frames
Idle == [op |-> "idle", pc |-> "idle", obj |-> 0, ok |-> TRUE,
         mc |-> "none", rel |-> "none", held |-> FALSE,
         n |-> 0, a |-> TRUE, b |-> TRUE, name |-> "", prev |-> 0]

Frame(op, pc, obj) == [Idle EXCEPT !.op = op, !.pc = pc, !.obj = obj]

\* Caller discipline: an object is used by one thread at a time.
Busy(o) == \E u \in Threads : th[u].op # "idle" /\ th[u].obj = o

\* A native call may fail while the failure budget lasts.
FaultChoices == IF faults < MaxFaults THEN {FALSE, TRUE} ELSE {FALSE}

\* ------------------------------------------------------------------ EGL
CurrentOn(t) == {c \in Contexts : <<t, c>> \in current}

eglGetCurrentContext(t) ==
  IF CurrentOn(t) = {} THEN NoContext ELSE CHOOSE c \in CurrentOn(t) : TRUE

\* A binding that keeps what was current on the thread.
BindKeepingPrevious(cur, t, c) == cur \cup {<<t, c>>}

\* eglMakeCurrent(display_, surface, surface, context_) succeeding on thread t.
BindCurrent(cur, t, c) == {p \in cur : p[1] # t} \cup {<<t, c>>}

\* An unbinding that leaves the thread's binding as it is.
UnbindNothing(cur, t) == cur

\* eglMakeCurrent(display_, EGL_NO_SURFACE, EGL_NO_SURFACE, EGL_NO_CONTEXT) succeeding.
UnbindCurrent(cur, t) == {p \in cur : p[1] # t}

NativeAlive(c) == egl[c].context /\ egl[c].surface /\ egl[c].display

\* An EGL that takes no context for current on another thread.
NeverElsewhere(t, c) == FALSE

CurrentElsewhere(t, c) == \E u \in Threads \ {t} : <<u, c>> \in current

\* EGLOffscreenContext::MakeCurrent.  `fail`: the native call reports an error.
\* eglMakeCurrent refuses a context that is current on another thread
\* (EGL_BAD_ACCESS).
MakeCurrent(t, c, fail) ==
  IF fail \/ ~NativeAlive(c) \/ CurrentElsewhere(t, c)
  THEN [ok |-> FALSE, cur |-> current]
  ELSE [ok |-> TRUE, cur |-> BindCurrent(current, t, c)]

\* A Release that unbinds whatever is current.
ReleaseAny(t) == Contexts

\* The contexts Release compares with context_.
ReleaseTargets(t) == {eglGetCurrentContext(t)}

\* EGLOffscreenContext::Release.
Release(t, c, fail) ==
  IF c # NoContext /\ c \in ReleaseTargets(t)
  THEN IF fail THEN [ok |-> FALSE, cur |-> current, native |-> TRUE]
       ELSE [ok |-> TRUE, cur |-> UnbindCurrent(current, t), native |-> TRUE]
  ELSE [ok |-> TRUE, cur |-> current, native |-> FALSE]

Tick(failed) == IF failed THEN faults + 1 ELSE faults

Status(ok) == IF ok THEN "ok" ELSE "err"

\* ------------------------------------------------- ~EGLOffscreenContext
TeardownOrder == <<"dtorRelease", "dtorDestroyContext", "dtorDestroySurface", "dtorTerminate">>

\* A destructor that goes on after a failed step.
TeardownContinue(k, ok) ==
  IF k < Len(TeardownOrder) THEN TeardownOrder[k + 1] ELSE "dtorEnd"

\* What the destructor does after a step: the next step, or exit(-1).
TeardownNext(k, ok) ==
  IF ~ok THEN "exit"
  ELSE IF k < Len(TeardownOrder) THEN TeardownOrder[k + 1] ELSE "dtorEnd"

Log(c, pc, ok) == [teardown EXCEPT ![c] = Append(@, [step |-> pc, ok |-> ok])]

TeardownStep(t, k, ok, egl2, cur2, relst) ==
  LET c == th[t].obj
      nxt == TeardownNext(k, ok) IN
  /\ teardown' = Log(c, TeardownOrder[k], ok)
  /\ egl' = egl2
  /\ current' = cur2
  /\ aborted' = (nxt = "exit")
  /\ th' = [th EXCEPT ![t].pc = nxt, ![t].rel = relst]
  /\ UNCHANGED <<glVars, testVars, ops, unitVars>>

DtorRelease(t) ==
  /\ ~aborted /\ th[t].pc = "dtorRelease"
  /\ \E fail \in FaultChoices :
       LET r == Release(t, th[t].obj, fail) IN
       /\ faults' = Tick(r.native /\ fail)
       /\ TeardownStep(t, 1, r.ok, egl, r.cur, Status(r.ok))

DtorDestroyContext(t) ==
  /\ ~aborted /\ th[t].pc = "dtorDestroyContext"
  /\ \E fail \in FaultChoices :
       /\ faults' = Tick(fail)
       /\ TeardownStep(t, 2, ~fail,
                       IF fail THEN egl ELSE [egl EXCEPT ![th[t].obj].context = FALSE],
                       current, th[t].rel)

DtorDestroySurface(t) ==
  /\ ~aborted /\ th[t].pc = "dtorDestroySurface"
  /\ \E fail \in FaultChoices :
       /\ faults' = Tick(fail)
       /\ TeardownStep(t, 3, ~fail,
                       IF fail THEN egl ELSE [egl EXCEPT ![th[t].obj].surface = FALSE],
                       current, th[t].rel)

DtorTerminate(t) ==
  /\ ~aborted /\ th[t].pc = "dtorTerminate"
  /\ \E fail \in FaultChoices :
       /\ faults' = Tick(fail)
       /\ TeardownStep(t, 4, ~fail,
                       IF fail THEN egl ELSE [egl EXCEPT ![th[t].obj].display = FALSE],
                       current, th[t].rel)

\* ------------------------------------------- direct use of a context
CtxCall(t, c) ==
  /\ ops < MaxOps /\ ops' = ops + 1 /\ UNCHANGED unitVars
  /\ ~aborted /\ th[t].op = "idle" /\ ~Busy(c) /\ NativeAlive(c)
  /\ \E op \in {"MakeCurrent", "Release", "DestroyContext"} :
       th' = [th EXCEPT ![t] = Frame(op,
                CASE op = "MakeCurrent" -> "makeCurrent"
                  [] op = "Release" -> "release"
                  [] OTHER -> "dtorRelease", c)]
  /\ UNCHANGED <<eglVars, faults, aborted, glVars, testVars>>

CtxMakeCurrent(t) ==
  /\ ~aborted /\ th[t].op = "MakeCurrent" /\ th[t].pc = "makeCurrent"
  /\ \E fail \in FaultChoices :
       LET r == MakeCurrent(t, th[t].obj, fail) IN
       /\ current' = r.cur
       /\ faults' = Tick(fail)
       /\ th' = [th EXCEPT ![t].pc = "done", ![t].mc = Status(r.ok), ![t].ok = r.ok]
  /\ UNCHANGED <<egl, teardown, aborted, glVars, testVars, ops, unitVars>>

CtxRelease(t) ==
  /\ ~aborted /\ th[t].op = "Release" /\ th[t].pc = "release"
  /\ \E fail \in FaultChoices :
       LET r == Release(t, th[t].obj, fail) IN
       /\ current' = r.cur
       /\ faults' = Tick(r.native /\ fail)
       /\ th' = [th EXCEPT ![t].pc = "done", ![t].rel = Status(r.ok), ![t].ok = r.ok]
  /\ UNCHANGED <<egl, teardown, aborted, glVars, testVars, ops, unitVars>>

CtxDestroyed(t) ==
  /\ ~aborted /\ th[t].op = "DestroyContext" /\ th[t].pc = "dtorEnd"
  /\ th' = [th EXCEPT ![t] = Idle]
  /\ UNCHANGED <<eglVars, faults, aborted, glVars, testVars, ops, unitVars>>

\* ------------------------------------------------------------------ GL
BufferNames == {"triangular_mesh", "unused"}
\* The shader-storage blocks the linked program declares.
ActiveBlocks == {"triangular_mesh"}

EmptyGl == [prog |-> FALSE, target |-> FALSE, boundFb |-> FALSE, used |-> FALSE,
            clearCol |-> 0, pix |-> <<0, FALSE>>, bufs |-> {}]

\* GL calls act on the context that is current on the calling thread.
GlCtx(t) == eglGetCurrentContext(t)
GlState(t) == IF GlCtx(t) = NoContext THEN EmptyGl ELSE glc[GlCtx(t)]

\* glGetError after a call.  Without a current context the outcome is
\* undefined; a name that is not an object of the current context is an error.
GlErrors(t, valid) ==
  IF GlCtx(t) = NoContext THEN BOOLEAN
  ELSE IF valid THEN FaultChoices ELSE {TRUE}

GlInjected(t, valid, err) == GlCtx(t) # NoContext /\ valid /\ err

GlApply(t, err, new) ==
  IF err \/ GlCtx(t) = NoContext THEN glc ELSE [glc EXCEPT ![GlCtx(t)] = new]

\* ----------------------------------------- RasterizerWithContext::Create
CreateCall(t, i) ==
  /\ ops < MaxOps /\ ops' = ops + 1 /\ UNCHANGED unitVars
  /\ ~aborted /\ th[t].op = "idle" /\ ~Busy(i) /\ inst[i].state = "absent"
  /\ red_clear' = red_clear + 1
  /\ \E in \in {<<TRUE, TRUE>>, <<TRUE, FALSE>>, <<FALSE, TRUE>>} :
       th' = [th EXCEPT ![t] = [Frame("Create", "eglCreate", i) EXCEPT
                                  !.a = in[1], !.b = in[2], !.n = red_clear',
                                  !.prev = eglGetCurrentContext(t)]]
  /\ UNCHANGED <<eglVars, faults, aborted, glVars, num_successes, renders, ssbUsed>>

CreateEgl(t) ==
  /\ ~aborted /\ th[t].op = "Create" /\ th[t].pc = "eglCreate"
  /\ \E fail \in FaultChoices :
       /\ faults' = Tick(fail)
       /\ egl' = IF fail THEN egl
                 ELSE [egl EXCEPT ![th[t].obj] =
                         [context |-> TRUE, surface |-> TRUE, display |-> TRUE]]
       /\ th' = [th EXCEPT ![t].pc = IF fail THEN "done" ELSE "makeCurrent",
                           ![t].ok = ~fail]
       /\ inst' = IF fail THEN [inst EXCEPT ![th[t].obj].state = "failed"] ELSE inst
  /\ UNCHANGED <<current, teardown, aborted, glc, result, testVars, ops, unitVars>>

CreateMakeCurrent(t) ==
  /\ ~aborted /\ th[t].op = "Create" /\ th[t].pc = "makeCurrent"
  /\ \E fail \in FaultChoices :
       LET r == MakeCurrent(t, th[t].obj, fail) IN
       /\ current' = r.cur
       /\ faults' = Tick(fail)
       /\ th' = [th EXCEPT ![t].pc = "program", ![t].mc = Status(r.ok)]
  /\ UNCHANGED <<egl, teardown, aborted, glVars, testVars, ops, unitVars>>

CreateProgram(t) ==
  /\ ~aborted /\ th[t].op = "Create" /\ th[t].pc = "program"
  /\ \E err \in GlErrors(t, TRUE) :
       LET ok == th[t].a /\ ~err IN
       /\ faults' = Tick(GlInjected(t, TRUE, err))
       /\ glc' = GlApply(t, ~ok, [GlState(t) EXCEPT !.prog = TRUE])
       /\ th' = [th EXCEPT ![t].pc = IF ok THEN "targets" ELSE "dtorRelease",
                           ![t].ok = ok, ![t].held = ok]
  /\ UNCHANGED <<eglVars, aborted, inst, result, testVars, ops, unitVars>>

CreateTargets(t) ==
  /\ ~aborted /\ th[t].op = "Create" /\ th[t].pc = "targets"
  /\ \E err \in GlErrors(t, TRUE) :
       LET ok == th[t].b /\ ~err IN
       /\ faults' = Tick(GlInjected(t, TRUE, err))
       /\ glc' = GlApply(t, ~ok, [GlState(t) EXCEPT !.target = TRUE, !.boundFb = TRUE])
       /\ th' = [th EXCEPT ![t].pc = IF ok THEN "release" ELSE "dtorRelease",
                           ![t].ok = ok]
  /\ UNCHANGED <<eglVars, aborted, inst, result, testVars, ops, unitVars>>

CreateRelease(t) ==
  /\ ~aborted /\ th[t].op = "Create" /\ th[t].pc = "release"
  /\ \E fail \in FaultChoices :
       LET r == Release(t, th[t].obj, fail) IN
       /\ current' = r.cur
       /\ faults' = Tick(r.native /\ fail)
       /\ th' = [th EXCEPT ![t].pc = "done", ![t].rel = Status(r.ok), ![t].held = FALSE]
  /\ inst' = [inst EXCEPT ![th[t].obj] =
                [state |-> "live", program |-> TRUE, targets |-> TRUE,
                 buffers |-> {}, clear |-> th[t].n]]
  /\ UNCHANGED <<egl, teardown, aborted, glc, result, testVars, ops, unitVars>>

\* Return false: the locals are destroyed in reverse order of declaration,
\* offscreen_context first (the dtor steps above), then program.
CreateUnwindProgram(t) ==
  /\ ~aborted /\ th[t].op = "Create" /\ th[t].pc = "dtorEnd"
  /\ glc' = IF th[t].held
            THEN GlApply(t, FALSE, [GlState(t) EXCEPT !.prog = FALSE, !.used = FALSE])
            ELSE glc
  /\ th' = [th EXCEPT ![t].pc = "done", ![t].held = FALSE]
  /\ inst' = [inst EXCEPT ![th[t].obj].state = "failed"]
  /\ UNCHANGED <<eglVars, faults, aborted, result, testVars, ops, unitVars>>

\* ----------------------------------------- RasterizerWithContext::Render
\* A clear colour read from the factory's static instead of the instance.
ClearColorShared(i) == red_clear

\* The clear colour handed to glClearColor.
ClearColorOf(i) == inst[i].clear

\* A Render that releases the context only on its successful path.
RenderExitOnSuccessOnly(ok) == IF ok THEN "release" ELSE "done"

\* Where Render goes when the delegated Rasterizer::Render has returned.
RenderExitPc(ok) == "release"

\* Leaving Rasterizer::Render on an error: program_cleanup runs if armed.
RenderFailPc(held) == IF held THEN "unuse" ELSE RenderExitPc(FALSE)

RenderCall(t, i) ==
  /\ ops < MaxOps /\ ops' = ops + 1 /\ UNCHANGED unitVars
  /\ ~aborted /\ th[t].op = "idle" /\ ~Busy(i) /\ inst[i].state = "live"
  /\ \E n \in {0, MaxPoints}, bufOk \in BOOLEAN :
       /\ th' = [th EXCEPT ![t] = [Frame("Render", "makeCurrent", i) EXCEPT
                                     !.n = n, !.b = bufOk,
                                     !.prev = eglGetCurrentContext(t)]]
  /\ UNCHANGED <<eglVars, faults, aborted, glVars, testVars>>

\* Render called on an instance while another thread is inside Render of the
\* same instance: the caller discipline is not kept.
RenderConcurrentCall(t, i) ==
  /\ ops < MaxOps /\ ops' = ops + 1 /\ UNCHANGED unitVars
  /\ ~aborted /\ th[t].op = "idle" /\ inst[i].state = "live"
  /\ \E u \in Threads \ {t} : th[u].op = "Render" /\ th[u].obj = i
  /\ \E n \in {0, MaxPoints}, bufOk \in BOOLEAN :
       /\ th' = [th EXCEPT ![t] = [Frame("Render", "makeCurrent", i) EXCEPT
                                     !.n = n, !.b = bufOk,
                                     !.prev = eglGetCurrentContext(t)]]
  /\ UNCHANGED <<eglVars, faults, aborted, glVars, testVars>>

RenderMakeCurrent(t) ==
  /\ ~aborted /\ th[t].op = "Render" /\ th[t].pc = "makeCurrent"
  /\ \E fail \in FaultChoices :
       LET r == MakeCurrent(t, th[t].obj, fail) IN
       /\ current' = r.cur
       /\ faults' = Tick(fail)
       /\ th' = [th EXCEPT ![t].pc = "state", ![t].mc = Status(r.ok)]
  /\ UNCHANGED <<egl, teardown, aborted, glVars, testVars, ops, unitVars>>

\* One checked GL call (or group of calls) of Rasterizer::Render.
RenderGlStep(t, pc, valid, new, next, arms) ==
  /\ ~aborted /\ th[t].op = "Render" /\ th[t].pc = pc
  /\ \E err \in GlErrors(t, valid) :
       /\ faults' = Tick(GlInjected(t, valid, err))
       /\ glc' = GlApply(t, err, new)
       /\ th' = [th EXCEPT ![t].pc = IF err THEN RenderFailPc(th[t].held) ELSE next,
                           ![t].ok = ~err,
                           ![t].held = IF err THEN @ ELSE (@ \/ arms)]
  /\ UNCHANGED <<eglVars, aborted, inst, result, testVars, ops, unitVars>>

\* A held buffer whose name is an active block is bound with BindBufferBase.
BuffersValid(t) ==
  \A nm \in inst[th[t].obj].buffers :
    (nm \in ActiveBlocks /\ GlState(t).prog) => nm \in GlState(t).bufs

RenderSetState(t) ==
  RenderGlStep(t, "state", BuffersValid(t), GlState(t), "use", FALSE)

RenderUse(t) ==
  RenderGlStep(t, "use", GlState(t).prog,
               [GlState(t) EXCEPT !.used = TRUE], "bindFramebuffer", TRUE)

RenderBindFramebuffer(t) ==
  RenderGlStep(t, "bindFramebuffer", GlState(t).target,
               [GlState(t) EXCEPT !.boundFb = TRUE], "clearColor", FALSE)

RenderClearColor(t) ==
  RenderGlStep(t, "clearColor", TRUE,
               [GlState(t) EXCEPT !.clearCol = ClearColorOf(th[t].obj)], "clear", FALSE)

RenderClear(t) ==
  RenderGlStep(t, "clear", TRUE,
               [GlState(t) EXCEPT !.pix = IF GlState(t).boundFb
                                          THEN <<GlState(t).clearCol, FALSE>> ELSE @],
               "draw", FALSE)

RenderDraw(t) ==
  RenderGlStep(t, "draw", TRUE,
               [GlState(t) EXCEPT !.pix = IF th[t].n > 0 /\ GlState(t).boundFb
                                          THEN <<@[1], TRUE>> ELSE @],
               "read", FALSE)

\* RenderTargets::ReadPixels, then program_cleanup.release() on success.
RenderRead(t) ==
  /\ ~aborted /\ th[t].op = "Render" /\ th[t].pc = "read"
  /\ IF ~th[t].b
     THEN /\ th' = [th EXCEPT ![t].pc = RenderFailPc(th[t].held), ![t].ok = FALSE]
          /\ UNCHANGED <<faults, result, ops, unitVars>>
     ELSE \E err \in GlErrors(t, TRUE) :
            /\ faults' = Tick(GlInjected(t, TRUE, err))
            /\ result' = IF err \/ GlCtx(t) = NoContext THEN result
                         ELSE [result EXCEPT ![t] = GlState(t).pix]
            /\ th' = [th EXCEPT ![t].pc = IF err THEN RenderFailPc(th[t].held)
                                          ELSE RenderExitPc(TRUE),
                                ![t].ok = ~err,
                                ![t].held = IF err THEN @ ELSE FALSE]
  /\ UNCHANGED <<eglVars, aborted, glc, inst, testVars, ops, unitVars>>

\* program_cleanup: glUseProgram(0).
RenderUnuse(t) ==
  /\ ~aborted /\ th[t].op = "Render" /\ th[t].pc = "unuse"
  /\ glc' = GlApply(t, FALSE, [GlState(t) EXCEPT !.used = FALSE])
  /\ th' = [th EXCEPT ![t].pc = RenderExitPc(FALSE), ![t].held = FALSE]
  /\ UNCHANGED <<eglVars, faults, aborted, inst, result, testVars, ops, unitVars>>

\* context_cleanup: egl_context_->Release().
RenderRelease(t) ==
  /\ ~aborted /\ th[t].op = "Render" /\ th[t].pc = "release"
  /\ \E fail \in FaultChoices :
       LET r == Release(t, th[t].obj, fail) IN
       /\ current' = r.cur
       /\ faults' = Tick(r.native /\ fail)
       /\ th' = [th EXCEPT ![t].pc = "done", ![t].rel = Status(r.ok)]
  /\ UNCHANGED <<egl, teardown, aborted, glVars, testVars, ops, unitVars>>

\* The render routine of the threads counts the successes of its calls
\* (num_points = 0, a result buffer of the right size).
RenderReturn(t) ==
  /\ ~aborted /\ th[t].op = "Render" /\ th[t].pc = "done"
  /\ IF th[t].n = 0 /\ th[t].b
     THEN /\ renders' = [renders EXCEPT ![t] = @ + 1]
          /\ num_successes' = [num_successes EXCEPT ![t] = IF th[t].ok THEN @ + 1 ELSE @]
     ELSE UNCHANGED <<renders, num_successes>>
  /\ th' = [th EXCEPT ![t] = Idle]
  /\ UNCHANGED <<eglVars, faults, aborted, glVars, red_clear, ssbUsed, ops, unitVars>>

\* ------------------------------------------- ~RasterizerWithContext
\* After MakeCurrent the destructor goes on to Reset(), whatever the status.
DtorAfterMakeCurrent(ok) == "resetProgram"

DestroyCall(t, i) ==
  /\ ops < MaxOps /\ ops' = ops + 1 /\ UNCHANGED unitVars
  /\ ~aborted /\ th[t].op = "idle" /\ ~Busy(i) /\ inst[i].state = "live"
  /\ th' = [th EXCEPT ![t] = Frame("Destroy", "makeCurrent", i)]
  /\ UNCHANGED <<eglVars, faults, aborted, glVars, testVars>>

DestroyMakeCurrent(t) ==
  /\ ~aborted /\ th[t].op = "Destroy" /\ th[t].pc = "makeCurrent"
  /\ \E fail \in FaultChoices :
       LET r == MakeCurrent(t, th[t].obj, fail)
           nxt == DtorAfterMakeCurrent(r.ok) IN
       /\ current' = r.cur
       /\ faults' = Tick(fail)
       /\ aborted' = (nxt = "exit")
       /\ th' = [th EXCEPT ![t].pc = nxt, ![t].mc = Status(r.ok)]
  /\ UNCHANGED <<egl, teardown, glVars, testVars, ops, unitVars>>

\* Rasterizer::Reset: program_.reset() -> glDeleteProgram.
DestroyResetProgram(t) ==
  /\ ~aborted /\ th[t].op = "Destroy" /\ th[t].pc = "resetProgram"
  /\ glc' = GlApply(t, FALSE, [GlState(t) EXCEPT !.prog = FALSE, !.used = FALSE])
  /\ inst' = [inst EXCEPT ![th[t].obj].program = FALSE]
  /\ th' = [th EXCEPT ![t].pc = "resetTargets"]
  /\ UNCHANGED <<eglVars, faults, aborted, result, testVars, ops, unitVars>>

\* render_targets_.reset() -> glDeleteRenderbuffers, glDeleteFramebuffers.
DestroyResetTargets(t) ==
  /\ ~aborted /\ th[t].op = "Destroy" /\ th[t].pc = "resetTargets"
  /\ glc' = GlApply(t, FALSE, [GlState(t) EXCEPT !.target = FALSE, !.boundFb = FALSE])
  /\ inst' = [inst EXCEPT ![th[t].obj].targets = FALSE]
  /\ th' = [th EXCEPT ![t].pc = "resetBuffers"]
  /\ UNCHANGED <<eglVars, faults, aborted, result, testVars, ops, unitVars>>

\* buffer.second.reset() for every held buffer -> glDeleteBuffers.
DestroyResetBuffers(t) ==
  /\ ~aborted /\ th[t].op = "Destroy" /\ th[t].pc = "resetBuffers"
  /\ glc' = GlApply(t, FALSE,
                    [GlState(t) EXCEPT !.bufs = @ \ inst[th[t].obj].buffers])
  /\ inst' = [inst EXCEPT ![th[t].obj].buffers = {}]
  /\ th' = [th EXCEPT ![t].pc = "dtorRelease"]
  /\ UNCHANGED <<eglVars, faults, aborted, result, testVars, ops, unitVars>>

DestroyEnd(t) ==
  /\ ~aborted /\ th[t].op = "Destroy" /\ th[t].pc = "dtorEnd"
  /\ inst' = [inst EXCEPT ![th[t].obj].state = "destroyed"]
  /\ th' = [th EXCEPT ![t] = Idle]
  /\ UNCHANGED <<eglVars, faults, aborted, glc, result, testVars, ops, unitVars>>

\* --------------------------------------- Rasterizer::SetUniformMatrix
\* (inherited unchanged by RasterizerWithContext)
SetUniformCall(t, i) ==
  /\ ops < MaxOps /\ ops' = ops + 1 /\ UNCHANGED unitVars
  /\ ~aborted /\ th[t].op = "idle" /\ ~Busy(i) /\ inst[i].state = "live"
  /\ \E in \in {<<TRUE, TRUE>>, <<TRUE, FALSE>>, <<FALSE, TRUE>>} :
       th' = [th EXCEPT ![t] = [Frame("SetUniformMatrix", "validate", i) EXCEPT
                                  !.a = in[1], !.b = in[2]]]
  /\ UNCHANGED <<eglVars, faults, aborted, glVars, testVars>>

\* num_rows * num_columns != matrix.size()
SetUniformValidate(t) ==
  /\ ~aborted /\ th[t].op = "SetUniformMatrix" /\ th[t].pc = "validate"
  /\ th' = [th EXCEPT ![t].pc = IF th[t].a THEN "queryType" ELSE "done",
                      ![t].ok = th[t].a]
  /\ UNCHANGED <<eglVars, faults, aborted, glVars, testVars, ops, unitVars>>

\* GetResourceProperty(name, GL_UNIFORM, GL_TYPE), then the shape check.
SetUniformQueryType(t) ==
  /\ ~aborted /\ th[t].op = "SetUniformMatrix" /\ th[t].pc = "queryType"
  /\ \E err \in GlErrors(t, GlState(t).prog) :
       LET ok == th[t].b /\ ~err IN
       /\ faults' = Tick(GlInjected(t, GlState(t).prog, err))
       /\ th' = [th EXCEPT ![t].pc = IF ok THEN "upload" ELSE "done", ![t].ok = ok]
  /\ UNCHANGED <<eglVars, aborted, glVars, testVars, ops, unitVars>>

\* GetResourceProperty(GL_LOCATION), Use, glUniformMatrix*fv, glUseProgram(0).
SetUniformUpload(t) ==
  /\ ~aborted /\ th[t].op = "SetUniformMatrix" /\ th[t].pc = "upload"
  /\ \E err \in GlErrors(t, GlState(t).prog) :
       /\ faults' = Tick(GlInjected(t, GlState(t).prog, err))
       /\ glc' = GlApply(t, FALSE, [GlState(t) EXCEPT !.used = FALSE])
       /\ th' = [th EXCEPT ![t].pc = "done", ![t].ok = ~err]
  /\ UNCHANGED <<eglVars, aborted, inst, result, testVars, ops, unitVars>>

\* ---------------------------------- Rasterizer::SetShaderStorageBuffer
SsbCall(t, i) ==
  /\ ops < MaxOps /\ ops' = ops + 1 /\ UNCHANGED unitVars
  /\ ~aborted /\ th[t].op = "idle" /\ ~Busy(i) /\ inst[i].state = "live"
  /\ ssbUsed' = TRUE
  /\ \E nm \in BufferNames :
       th' = [th EXCEPT ![t] = [Frame("SetShaderStorageBuffer", "ssbCreate", i) EXCEPT
                                  !.name = nm]]
  /\ UNCHANGED <<eglVars, faults, aborted, glVars, num_successes, renders, red_clear>>

\* shader_storage_buffers_.count(name) == 0: ShaderStorageBuffer::Create, insert.
SsbCreate(t) ==
  /\ ~aborted /\ th[t].op = "SetShaderStorageBuffer" /\ th[t].pc = "ssbCreate"
  /\ IF th[t].name \in inst[th[t].obj].buffers
     THEN /\ th' = [th EXCEPT ![t].pc = "ssbUpload"]
          /\ UNCHANGED <<faults, glc, inst, ops, unitVars>>
     ELSE \E err \in GlErrors(t, TRUE) :
            /\ faults' = Tick(GlInjected(t, TRUE, err))
            /\ glc' = GlApply(t, err, [GlState(t) EXCEPT !.bufs = @ \cup {th[t].name}])
            /\ inst' = IF err THEN inst
                       ELSE [inst EXCEPT ![th[t].obj].buffers = @ \cup {th[t].name}]
            /\ th' = [th EXCEPT ![t].pc = IF err THEN "done" ELSE "ssbUpload",
                                ![t].ok = ~err]
  /\ UNCHANGED <<eglVars, aborted, result, testVars, ops, unitVars>>

\* ShaderStorageBuffer::Upload: glBindBuffer, glBufferData, glBindBuffer(0).
SsbUpload(t) ==
  /\ ~aborted /\ th[t].op = "SetShaderStorageBuffer" /\ th[t].pc = "ssbUpload"
  /\ \E err \in GlErrors(t, th[t].name \in GlState(t).bufs) :
       /\ faults' = Tick(GlInjected(t, th[t].name \in GlState(t).bufs, err))
       /\ th' = [th EXCEPT ![t].pc = "done", ![t].ok = ~err]
  /\ UNCHANGED <<eglVars, aborted, glVars, testVars, ops, unitVars>>

\* The caller takes the result of a call.
Return(t) ==
  /\ ~aborted /\ th[t].pc = "done"
  /\ th[t].op \in {"MakeCurrent", "Release", "Create",
                   "SetUniformMatrix", "SetShaderStorageBuffer"}
  /\ th' = [th EXCEPT ![t] = Idle]
  /\ UNCHANGED <<eglVars, faults, aborted, glVars, testVars, ops, unitVars>>

\* ============================================ single-threaded use
\* The components used one call at a time by one thread, as their unit tests
\* do: each call runs its native steps in order, each native step may fail.
UIdle == [op |-> "idle", pc |-> "idle"]

\* Outcomes of a native call checked with RETURN_IF_EGL_ERROR and then by its
\* returned value: it works, eglGetError reports an error, or the value is the
\* failure value (false, EGL_NO_SURFACE, ...).
NativeOutcomes == {"ok", "error", "bad"}

\* ------------------------------------------- EGLOffscreenContext::Create
\* The cleanup that runs first: the scoped cleanups run in the reverse
\* order of their declaration.  A cleanup taking the first one declared:
CleanupFirst(armed) == Head(armed)

CleanupNext(armed) == armed[Len(armed)]

CleanupRest(armed) == SelectSeq(armed, LAMBDA x : x # CleanupNext(armed))

EglCreateCall ==
  /\ call.op = "idle"
  /\ call' = [op |-> "EglCreate", pc |-> "display", ok |-> TRUE, failed |-> "none",
           armed |-> <<>>, acquired |-> <<>>, released |-> <<>>, obj |-> {}]
  /\ nat' = {}
  /\ UNCHANGED <<gpu, sharedVars>>

\* A native step of Create: `res` is the resource it acquires ("" for none),
\* `cleanup` whether a scoped cleanup is declared for it.
EglCreateStep(pc, good, res, cleanup, next) ==
  /\ call.op = "EglCreate" /\ call.pc = pc
  /\ IF good
     THEN /\ call' = [call EXCEPT !.pc = next,
                            !.acquired = IF res = "" THEN @ ELSE Append(@, res),
                            !.armed = IF cleanup THEN Append(@, res) ELSE @]
          /\ nat' = IF res = "" THEN nat ELSE nat \cup {res}
     ELSE /\ call' = [call EXCEPT !.pc = "unwind", !.ok = FALSE, !.failed = pc]
          /\ nat' = nat
  /\ UNCHANGED <<gpu, sharedVars>>

\* display = CreateInitializedEGLDisplay(); initialize_cleanup
EglCreateDisplay ==
  \E good \in BOOLEAN : EglCreateStep("display", good, "display", TRUE, "bindApi")

\* RETURN_IF_EGL_ERROR(success = eglBindAPI(rendering_api)); success == false
EglCreateBindApi ==
  \E o \in NativeOutcomes : EglCreateStep("bindApi", o = "ok", "", FALSE, "chooseConfig")

\* eglChooseConfig: returned_num_configs != kRequestedNumConfigs || !success
EglCreateChooseConfig ==
  \E o \in NativeOutcomes, returned_num_configs \in 0..MaxConfigs :
    EglCreateStep("chooseConfig",
                  o = "ok" /\ returned_num_configs = kRequestedNumConfigs,
                  "", FALSE, "surface")

\* eglCreatePbufferSurface; surface_cleanup
EglCreateSurface ==
  \E o \in NativeOutcomes : EglCreateStep("surface", o = "ok", "surface", TRUE, "context")

\* eglCreateContext
EglCreateContext ==
  \E o \in NativeOutcomes : EglCreateStep("context", o = "ok", "context", FALSE, "construct")

\* initialize_cleanup.release(); surface_cleanup.release(); new EGLOffscreenContext
EglCreateConstruct ==
  /\ call.op = "EglCreate" /\ call.pc = "construct"
  /\ call' = [call EXCEPT !.pc = "done", !.armed = <<>>, !.obj = nat]
  /\ UNCHANGED <<nat, gpu, sharedVars>>

\* An early return: the armed cleanups run, one native call each.
EglCreateUnwind ==
  /\ call.op = "EglCreate" /\ call.pc = "unwind"
  /\ IF call.armed = <<>>
     THEN /\ call' = [call EXCEPT !.pc = "done"]
          /\ nat' = nat
     ELSE /\ call' = [call EXCEPT !.armed = CleanupRest(@),
                            !.released = Append(@, CleanupNext(call.armed))]
          /\ nat' = nat \ {CleanupNext(call.armed)}
  /\ UNCHANGED <<gpu, sharedVars>>

\* ------------------------------------------------------- Program::Create
\* A shader of the input list: its source compiles, its source has a syntax
\* error, or its stage kind is not a shader type.
ShaderKinds == {"good", "syntaxError", "badStage"}

RECURSIVE SeqsUpTo(_, _)
SeqsUpTo(S, n) ==
  IF n = 0 THEN {<<>>}
  ELSE LET shorter == SeqsUpTo(S, n - 1) IN
       shorter \cup {Append(q, x) : q \in {r \in shorter : Len(r) = n - 1}, x \in S}

ShaderLists == SeqsUpTo(ShaderKinds, MaxShaders)

\* The GL objects of the context: the names of its renderbuffer objects (rb)
\* and of its framebuffer objects (fb), and, for Program::Create, the program object
\* ("none", "created", "linked", "unlinked", "deleted"), the shader object of
\* each list position ("none", "live", "attached", "flagged" = attached with
\* its deletion pending, "deleted"), the number of glDeleteShader calls made
\* on each shader (del), and the error flag glGetError reads.
NoObjects == [prog |-> "none", sh |-> [k \in 1..MaxShaders |-> "none"], err |-> FALSE,
              del |-> [k \in 1..MaxShaders |-> 0], rb |-> {}, fb |-> {}]

\* glDeleteShader: an attached shader is only flagged for deletion; deleting
\* a name that is no shader object raises an error.
glDeleteShader(g, k) ==
  CASE g.sh[k] = "live" -> [g EXCEPT !.sh[k] = "deleted", !.del[k] = @ + 1]
    [] g.sh[k] = "attached" -> [g EXCEPT !.sh[k] = "flagged", !.del[k] = @ + 1]
    [] OTHER -> [g EXCEPT !.err = TRUE, !.del[k] = @ + 1]

\* glDetachShader: a shader flagged for deletion is deleted when detached.
glDetachShader(g, k) ==
  CASE g.sh[k] = "attached" -> [g EXCEPT !.sh[k] = "live"]
    [] g.sh[k] = "flagged" -> [g EXCEPT !.sh[k] = "deleted"]
    [] OTHER -> [g EXCEPT !.err = TRUE]

\* glDeleteProgram: the program's shaders are detached.
glDeleteProgram(g) ==
  [g EXCEPT !.prog = "deleted",
            !.sh = [k \in 1..MaxShaders |->
                      CASE g.sh[k] = "attached" -> "live"
                        [] g.sh[k] = "flagged" -> "deleted"
                        [] OTHER -> g.sh[k]]]

\* Program::Create without the cleanup that deletes a compiled shader.
PushNothing(q, k) == q

\* shader_cleanups.push_back(MakeCleanup(compile_cleanup))
PushCompileCleanup(q, k) == Append(q, <<"delete", k>>)

\* shader_cleanups.push_back(MakeCleanup(attach_cleanup))
PushAttachCleanup(q, k) == Append(q, <<"detach", k>>)

\* ~vector destroys its elements in an order the standard leaves open:
\* first to last, or last to first.
VectorNext(q, fwd) == IF fwd THEN 1 ELSE Len(q)

VectorRest(q, fwd) == IF fwd THEN Tail(q) ELSE SubSeq(q, 1, Len(q) - 1)

RunCleanup(g, c) == IF c[1] = "delete" THEN glDeleteShader(g, c[2]) ELSE glDetachShader(g, c[2])

\* RETURN_IF_GL_ERROR: glGetError returns the error the statement raised or
\* one that was pending before it, and clears the flag.
glGetError(g, raised) == raised \/ g.err

Cleared(g) == [g EXCEPT !.err = FALSE]

MaxCreates == 2

InProgramCreate(pc) == call.op = "ProgramCreate" /\ call.pc = pc

\* A call of Program::Create by caller, the calls-th in the context.
ProgramFrame(shaders, fwd, caller, calls) ==
  [op |-> "ProgramCreate", pc |-> "createProgram", ok |-> TRUE,
   shaders |-> shaders, i |-> 1, cleanups |-> <<>>, armed |-> FALSE,
   fwd |-> fwd, obj |-> FALSE, caller |-> caller, calls |-> calls,
   stale |-> FALSE]

\* The shader the loop is at.
Shader == call.shaders[call.i]

\* Leaving Program::Create with an error; stale: the statement raised none,
\* the error was pending.
ProgramFail == [call EXCEPT !.pc = "shaderCleanups", !.ok = FALSE]

ProgramFailOn(raised) ==
  [call EXCEPT !.pc = "shaderCleanups", !.ok = FALSE, !.stale = ~raised]

ProgramCreateCall ==
  /\ call.op = "idle"
  /\ \E shaders \in ShaderLists, fwd \in BOOLEAN :
       call' = ProgramFrame(shaders, fwd, "test", 1)
  /\ gpu' = NoObjects
  /\ UNCHANGED <<nat, sharedVars>>

\* Program::Create is called again in the same context: new objects, and the
\* error flag as the calls before left it.
ProgramCreateAgain ==
  /\ InProgramCreate("done") /\ call.caller = "test" /\ call.calls < MaxCreates
  /\ \E shaders \in ShaderLists, fwd \in BOOLEAN :
       call' = ProgramFrame(shaders, fwd, "test", call.calls + 1)
  /\ gpu' = [NoObjects EXCEPT !.err = gpu.err]
  /\ UNCHANGED <<nat, sharedVars>>

\* program_handle = glCreateProgram(); program_cleanup
ProgramCreateProgram ==
  /\ InProgramCreate("createProgram")
  /\ \E zero \in BOOLEAN :
       IF zero
       THEN /\ call' = [call EXCEPT !.pc = "done", !.ok = FALSE]
            /\ gpu' = gpu
       ELSE /\ call' = [call EXCEPT !.armed = TRUE,
                          !.pc = IF call.shaders = <<>> THEN "link" ELSE "createShader"]
            /\ gpu' = [gpu EXCEPT !.prog = "created"]
  /\ UNCHANGED <<nat, sharedVars>>

\* CompileShader: glCreateShader(shader_type); shader_cleanup
ProgramCreateShader ==
  /\ InProgramCreate("createShader")
  /\ \E fail \in BOOLEAN :
       IF glGetError(gpu, fail \/ Shader = "badStage")
       THEN /\ call' = ProgramFailOn(fail \/ Shader = "badStage")
            /\ gpu' = Cleared(gpu)
       ELSE /\ call' = [call EXCEPT !.pc = "compile"]
            /\ gpu' = [gpu EXCEPT !.sh[call.i] = "live"]
  /\ UNCHANGED <<nat, sharedVars>>

\* CompileShader: glShaderSource, glCompileShader, GL_COMPILE_STATUS.  A GL
\* error returns through shader_cleanup; a failed compilation deletes the
\* shader and then returns through shader_cleanup as well.
ProgramCompile ==
  /\ InProgramCreate("compile")
  /\ \E fail \in BOOLEAN :
       IF glGetError(gpu, fail)
       THEN /\ call' = ProgramFailOn(fail)
            /\ gpu' = glDeleteShader(Cleared(gpu), call.i)
       ELSE IF Shader = "syntaxError"
       THEN /\ call' = ProgramFail
            /\ gpu' = glDeleteShader(glDeleteShader(gpu, call.i), call.i)
       ELSE /\ call' = [call EXCEPT !.pc = "attach",
                                    !.cleanups = PushCompileCleanup(@, call.i)]
            /\ gpu' = gpu
  /\ UNCHANGED <<nat, sharedVars>>

\* glAttachShader(program_handle, shader_idx); attach_cleanup
ProgramAttach ==
  /\ InProgramCreate("attach")
  /\ \E fail \in BOOLEAN :
       IF glGetError(gpu, fail)
       THEN /\ call' = ProgramFailOn(fail)
            /\ gpu' = Cleared(gpu)
       ELSE /\ call' = [call EXCEPT !.cleanups = PushAttachCleanup(@, call.i),
                          !.i = @ + 1,
                          !.pc = IF call.i < Len(call.shaders) THEN "createShader" ELSE "link"]
            /\ gpu' = [gpu EXCEPT !.sh[call.i] = "attached"]
  /\ UNCHANGED <<nat, sharedVars>>

\* RETURN_IF_GL_ERROR(glLinkProgram(program_handle)); *program = new Program;
\* program_cleanup.release().  A program that does not link raises no GL
\* error: its link status is false.
ProgramLink ==
  /\ InProgramCreate("link")
  /\ \E outcome \in {"linked", "unlinked", "error"} :
       IF glGetError(gpu, outcome = "error")
       THEN /\ call' = ProgramFailOn(outcome = "error")
            /\ gpu' = Cleared(gpu)
       ELSE /\ call' = [call EXCEPT !.pc = "shaderCleanups", !.obj = TRUE, !.armed = FALSE]
            /\ gpu' = [gpu EXCEPT !.prog = outcome]
  /\ UNCHANGED <<nat, sharedVars>>

\* Return: shader_cleanups is destroyed, one cleanup at a time.
ProgramShaderCleanups ==
  /\ InProgramCreate("shaderCleanups")
  /\ IF call.cleanups = <<>>
     THEN /\ call' = [call EXCEPT !.pc = "programCleanup"]
          /\ gpu' = gpu
     ELSE /\ call' = [call EXCEPT !.cleanups = VectorRest(@, call.fwd)]
          /\ gpu' = RunCleanup(gpu, call.cleanups[VectorNext(call.cleanups, call.fwd)])
  /\ UNCHANGED <<nat, sharedVars>>

\* Return: program_cleanup deletes the program unless released.
ProgramCleanup ==
  /\ InProgramCreate("programCleanup")
  /\ call' = [call EXCEPT !.pc = "done", !.armed = FALSE]
  /\ gpu' = IF call.armed THEN glDeleteProgram(gpu) ELSE gpu
  /\ UNCHANGED <<nat, sharedVars>>


\* ------------------------------------------------ RenderTargets::Create
\* glGenRenderbuffers / glGenFramebuffers: an unused name of the name space.
GenName(used) == CHOOSE n \in 1..(Cardinality(used) + 1) : n \notin used

\* The cleanups of CreateValidInternalFormat call glDeleteFramebuffers on the
\* name they captured, whatever kind of object was generated under it.
\* glDeleteFramebuffers(1, &name): names that are no framebuffer are ignored.
TargetCleanup(g, kind, n) == [g EXCEPT !.fb = @ \ {n}]

\* The objects of a RenderTargets created earlier in the context and still
\* alive, if any.
EarlierTargets ==
  {[rb |-> {}, fb |-> {}], [rb |-> {}, fb |-> {1}], [rb |-> {1, 2}, fb |-> {1}]}

InTargetsCreate(pc) == call.op = "TargetsCreate" /\ call.pc = pc

\* A call of RenderTargets::Create by caller in a context that holds the
\* objects e.
TargetsFrame(sizeOk, e, caller) ==
  [op |-> "TargetsCreate", pc |-> "genColor", ok |-> TRUE,
   sizeOk |-> sizeOk, armed |-> <<>>, before |-> e, obj |-> FALSE,
   caller |-> caller]

TargetsCreateCall ==
  /\ call.op = "idle"
  /\ \E e \in EarlierTargets, sizeOk \in BOOLEAN :
       /\ call' = TargetsFrame(sizeOk, e, "test")
       /\ gpu' = [NoObjects EXCEPT !.rb = e.rb, !.fb = e.fb]
  /\ UNCHANGED <<nat, sharedVars>>

\* glGen*(1, &name) checked with RETURN_IF_GL_ERROR, then the cleanup.
TargetsGen(pc, kind, next) ==
  /\ InTargetsCreate(pc)
  /\ \E fail \in BOOLEAN :
       LET n == GenName(IF kind = "rb" THEN gpu.rb ELSE gpu.fb) IN
       IF fail
       THEN /\ call' = [call EXCEPT !.pc = "unwind", !.ok = FALSE]
            /\ gpu' = gpu
       ELSE /\ call' = [call EXCEPT !.pc = next,
                                    !.armed = Append(@, <<kind, n>>)]
            /\ gpu' = IF kind = "rb" THEN [gpu EXCEPT !.rb = @ \cup {n}]
                                     ELSE [gpu EXCEPT !.fb = @ \cup {n}]
  /\ UNCHANGED <<nat, sharedVars>>

\* Bind / storage / attach calls checked with RETURN_IF_GL_ERROR.
TargetsStep(pc, valid, next) ==
  /\ InTargetsCreate(pc)
  /\ \E fail \in BOOLEAN :
       call' = IF fail \/ ~valid THEN [call EXCEPT !.pc = "unwind", !.ok = FALSE]
               ELSE [call EXCEPT !.pc = next]
  /\ UNCHANGED <<nat, gpu, sharedVars>>

TargetsGenColor == TargetsGen("genColor", "rb", "storeColor")

\* glBindRenderbuffer, glRenderbufferStorage(internalformat, width, height)
TargetsStoreColor == TargetsStep("storeColor", call.sizeOk, "genDepth")

TargetsGenDepth == TargetsGen("genDepth", "rb", "storeDepth")

TargetsStoreDepth == TargetsStep("storeDepth", call.sizeOk, "genFrame")

TargetsGenFrame == TargetsGen("genFrame", "fb", "attach")

\* glBindFramebuffer, glFramebufferRenderbuffer twice
TargetsAttach == TargetsStep("attach", TRUE, "construct")

\* new RenderTargets; the cleanups are released
TargetsConstruct ==
  /\ InTargetsCreate("construct")
  /\ call' = [call EXCEPT !.pc = "done", !.armed = <<>>, !.obj = TRUE]
  /\ UNCHANGED <<nat, gpu, sharedVars>>

\* An early return: the armed cleanups run, last declared first.
TargetsUnwind ==
  /\ InTargetsCreate("unwind")
  /\ IF call.armed = <<>>
     THEN /\ call' = [call EXCEPT !.pc = "done"]
          /\ gpu' = gpu
     ELSE LET c == call.armed[Len(call.armed)] IN
          /\ call' = [call EXCEPT !.armed = SubSeq(@, 1, Len(@) - 1)]
          /\ gpu' = TargetCleanup(gpu, c[1], c[2])
  /\ UNCHANGED <<nat, sharedVars>>


\* ------------------------------------------------ Rasterizer::Create
\* A unique_ptr<Program> that gave its object away.
ProgramMoved(g) == g
\* ~unique_ptr<Program>: Program::~Program calls glDeleteProgram.
DestroyProgram(g) == glDeleteProgram(g)

\* Rasterizer<T>::Create: the shaders are put in a list and Program::Create
\* is called.
RasterizerCreateCall ==
  /\ call.op = "idle"
  /\ \E shaders \in {q \in ShaderLists : Len(q) = MaxShaders}, fwd \in BOOLEAN :
       call' = ProgramFrame(shaders, fwd, "Rasterizer::Create", 1)
  /\ gpu' = NoObjects
  /\ UNCHANGED <<nat, sharedVars>>

\* RETURN_IF_TF_ERROR(Program::Create(...)), then RenderTargets<T>::Create.
RasterizerCreateTargets ==
  /\ InProgramCreate("done") /\ call.caller = "Rasterizer::Create"
  /\ IF call.ok
     THEN \E sizeOk \in BOOLEAN :
            call' = TargetsFrame(sizeOk, [rb |-> gpu.rb, fb |-> gpu.fb],
                                 "Rasterizer::Create")
     ELSE call' = [op |-> "RasterizerCreate", pc |-> "done", ok |-> FALSE,
                   rasterizer |-> FALSE, failedAt |-> "program"]
  /\ UNCHANGED <<nat, gpu, sharedVars>>

\* RETURN_IF_TF_ERROR(RenderTargets<T>::Create(...)): on an error the local
\* program is destroyed; otherwise the Rasterizer is constructed from the two.
RasterizerCreateConstruct ==
  /\ InTargetsCreate("done") /\ call.caller = "Rasterizer::Create"
  /\ IF call.ok
     THEN /\ call' = [op |-> "RasterizerCreate", pc |-> "done", ok |-> TRUE,
                      rasterizer |-> TRUE, failedAt |-> "none"]
          /\ gpu' = ProgramMoved(gpu)
     ELSE /\ call' = [op |-> "RasterizerCreate", pc |-> "done", ok |-> FALSE,
                      rasterizer |-> FALSE, failedAt |-> "targets"]
          /\ gpu' = DestroyProgram(gpu)
  /\ UNCHANGED <<nat, sharedVars>>


\* ------------------------------------------------ RenderTargets::ReadPixels
\* GL_MAX_RENDERBUFFER_SIZE of the implementation: width and height of a
\* RenderTargets are smaller.
MaxRenderbufferSize == 32768

Dims == {1, 2, MaxRenderbufferSize - 1}

\* The element types with a ReadPixels specialisation.
ElementTypes == {"float", "uint8"}

\* A buffer length 4 * q + r, as <<q, r>>.
BufferLengths(w, h) == {<<q, r>> : q \in {0, w * h - 1, w * h}, r \in {0, 3}}

\* width_ * height_ * 4 is an int product.  When it does not fit 32 bits the
\* build either wraps it (a negative int, converted to a size no buffer has,
\* or a smaller non-negative int) or has widened the product; in units of 4.
IntBits == 32

ProductFits(w, h) == w * h < 2 ^ (IntBits - 3)

Wrapped(w, h) ==
  LET m == (w * h) % 2 ^ (IntBits - 2) IN
  IF m < 2 ^ (IntBits - 3) THEN {<<m, 0>>} ELSE {}

\* A check that accepts every buffer at least as long as the image.
AcceptedAtLeast(w, h) == {{<<w * h, 0>>, <<w * h, 3>>}}

\* The buffer sizes the check of ReadPixelsValidPixelType may accept.
AcceptedSizes(w, h) ==
  IF ProductFits(w, h) THEN {{<<w * h, 0>>}}
  ELSE {{<<w * h, 0>>}, Wrapped(w, h)}

\* glReadPixels reads the colour attachment of the framebuffer bound for
\* reading.
glReadPixels(bound) == IF bound = "own" THEN "own pixels" ELSE "other pixels"

\* ReadPixels on a RenderTargets whose framebuffer is the one bound (Create
\* and BindFramebuffer leave it so), or created before another RenderTargets
\* whose Create or BindFramebuffer bound that one's framebuffer.
ReadPixelsCall ==
  /\ call.op = "idle"
  /\ \E w \in Dims, h \in Dims, ty \in ElementTypes, bound \in {"own", "other"} :
       \E len \in BufferLengths(w, h) :
         call' = [op |-> "ReadPixels", pc |-> "check", ok |-> TRUE,
                  width |-> w, height |-> h, type |-> ty, len |-> len,
                  bound |-> bound, buffer |-> "caller", readback |-> FALSE]
  /\ gpu' = [NoObjects EXCEPT !.rb = {1, 2}, !.fb = {1}]
  /\ UNCHANGED <<nat, sharedVars>>

\* if (buffer.size() != width_ * height_ * 4) return INVALID_ARGUMENT
ReadPixelsCheck ==
  /\ call.op = "ReadPixels" /\ call.pc = "check"
  /\ \E accepted \in AcceptedSizes(call.width, call.height) :
       call' = IF call.len \in accepted
               THEN [call EXCEPT !.pc = "read"]
               ELSE [call EXCEPT !.pc = "done", !.ok = FALSE]
  /\ UNCHANGED <<nat, gpu, sharedVars>>

\* RETURN_IF_GL_ERROR(glReadPixels(0, 0, width_, height_, GL_RGBA, pixel_type, ...))
ReadPixelsRead ==
  /\ call.op = "ReadPixels" /\ call.pc = "read"
  /\ \E fail \in BOOLEAN :
       call' = [call EXCEPT !.pc = "done", !.ok = ~fail, !.readback = TRUE,
                            !.buffer = IF fail THEN @ ELSE glReadPixels(call.bound)]
  /\ UNCHANGED <<nat, gpu, sharedVars>>


\* ------------------------------------------------ Program::GetResourceProperty
\* A query that takes an inactive name for a resource of value 0.
GetResourcePropertyOrZero(resources, name, property, glError) ==
  IF glError THEN [ok |-> FALSE, value |-> "GL_ERROR"]
  ELSE IF name \notin DOMAIN resources
       THEN [ok |-> TRUE, value |-> 0]
       ELSE [ok |-> TRUE, value |-> resources[name][property]]

\* The resources of an interface of a linked program, by name.  The query of
\* one property of a name: glGetProgramResourceIndex yields GL_INVALID_INDEX
\* for a name that is no active resource, and that is an INVALID_ARGUMENT; a
\* GL error of either query is an error as well.
GetResourceProperty(resources, name, property, glError) ==
  IF glError THEN [ok |-> FALSE, value |-> "GL_ERROR"]
  ELSE IF name \notin DOMAIN resources
       THEN [ok |-> FALSE, value |-> "GL_INVALID_INDEX"]
       ELSE [ok |-> TRUE, value |-> resources[name][property]]

\* ------------------------------------------------ Rasterizer::SetUniformMatrix
\* type_mapping: the (columns, rows) of the matrix types.
type_mapping ==
  [ty \in {"GL_FLOAT_MAT2", "GL_FLOAT_MAT3", "GL_FLOAT_MAT4",
           "GL_FLOAT_MAT2x3", "GL_FLOAT_MAT2x4", "GL_FLOAT_MAT3x2",
           "GL_FLOAT_MAT3x4", "GL_FLOAT_MAT4x2", "GL_FLOAT_MAT4x3"} |->
     CASE ty = "GL_FLOAT_MAT2" -> <<2, 2, "glUniformMatrix2fv">>
       [] ty = "GL_FLOAT_MAT3" -> <<3, 3, "glUniformMatrix3fv">>
       [] ty = "GL_FLOAT_MAT4" -> <<4, 4, "glUniformMatrix4fv">>
       [] ty = "GL_FLOAT_MAT2x3" -> <<2, 3, "glUniformMatrix2x3fv">>
       [] ty = "GL_FLOAT_MAT2x4" -> <<2, 4, "glUniformMatrix2x4fv">>
       [] ty = "GL_FLOAT_MAT3x2" -> <<3, 2, "glUniformMatrix3x2fv">>
       [] ty = "GL_FLOAT_MAT3x4" -> <<3, 4, "glUniformMatrix3x4fv">>
       [] ty = "GL_FLOAT_MAT4x2" -> <<4, 2, "glUniformMatrix4x2fv">>
       [] ty = "GL_FLOAT_MAT4x3" -> <<4, 3, "glUniformMatrix4x3fv">>]

\* A lookup that picks the setter by the number of columns alone.
SetterByColumns(type_info) ==
  CASE type_info[1] = 2 -> "glUniformMatrix2fv"
    [] type_info[1] = 3 -> "glUniformMatrix3fv"
    [] type_info[1] = 4 -> "glUniformMatrix4fv"

\* std::get<2>(type_info->second)
Setter(type_info) == type_info[3]

\* What GLSL declares as matCxR has C columns and R rows.
DeclaredShape ==
  [ty \in {"GL_FLOAT_MAT2", "GL_FLOAT_MAT3", "GL_FLOAT_MAT4",
           "GL_FLOAT_MAT2x3", "GL_FLOAT_MAT2x4", "GL_FLOAT_MAT3x2",
           "GL_FLOAT_MAT3x4", "GL_FLOAT_MAT4x2", "GL_FLOAT_MAT4x3"} |->
     CASE ty = "GL_FLOAT_MAT2" -> <<2, 2>>
       [] ty = "GL_FLOAT_MAT3" -> <<3, 3>>
       [] ty = "GL_FLOAT_MAT4" -> <<4, 4>>
       [] ty = "GL_FLOAT_MAT2x3" -> <<2, 3>>
       [] ty = "GL_FLOAT_MAT2x4" -> <<2, 4>>
       [] ty = "GL_FLOAT_MAT3x2" -> <<3, 2>>
       [] ty = "GL_FLOAT_MAT3x4" -> <<3, 4>>
       [] ty = "GL_FLOAT_MAT4x2" -> <<4, 2>>
       [] ty = "GL_FLOAT_MAT4x3" -> <<4, 3>>]

\* The matrix glUniformMatrixCxRfv writes has C columns and R rows, and
\* glUniformMatrixNfv writes an N by N one.
UploadShape ==
  [fn \in {"glUniformMatrix2fv", "glUniformMatrix3fv", "glUniformMatrix4fv",
           "glUniformMatrix2x3fv", "glUniformMatrix2x4fv", "glUniformMatrix3x2fv",
           "glUniformMatrix3x4fv", "glUniformMatrix4x2fv", "glUniformMatrix4x3fv"} |->
     CASE fn = "glUniformMatrix2fv" -> <<2, 2>>
       [] fn = "glUniformMatrix3fv" -> <<3, 3>>
       [] fn = "glUniformMatrix4fv" -> <<4, 4>>
       [] fn = "glUniformMatrix2x3fv" -> <<2, 3>>
       [] fn = "glUniformMatrix2x4fv" -> <<2, 4>>
       [] fn = "glUniformMatrix3x2fv" -> <<3, 2>>
       [] fn = "glUniformMatrix3x4fv" -> <<3, 4>>
       [] fn = "glUniformMatrix4x2fv" -> <<4, 2>>
       [] fn = "glUniformMatrix4x3fv" -> <<4, 3>>]

\* The types the uniform of the program under test is declared with.
DeclaredTypes == DOMAIN DeclaredShape \cup {"GL_FLOAT_VEC4", "GL_DOUBLE_MAT4"}

UniformNames == {"view_projection_matrix", "missing"}

\* The active uniforms of a program that declares view_projection_matrix.
Uniforms(ty) ==
  [nm \in {"view_projection_matrix"} |-> [GL_TYPE |-> ty, GL_LOCATION |-> 1]]

LargeDim == 65536

MatrixDims == {-4, 2, 3, 4, LargeDim}

MatrixLengths == {0, 4, 6, 8, 9, 12, 16}

Abs(x) == IF x < 0 THEN -x ELSE x

\* num_rows * num_columns is an int product.
IntProductFits(a, b) ==
  a = 0 \/ Abs(b) <= ((2 ^ (IntBits - 2) - 1) * 2 + 1) \div Abs(a)

\* A comparison that never finds a difference.
LengthNeverDiffers(rows, columns, len) == {FALSE}

\* The outcomes of num_rows * num_columns != matrix.size(): the product is
\* converted to an unsigned size, so a negative one equals no length; of a
\* product that does not fit an int the build decides.
LengthDiffers(rows, columns, len) ==
  IF IntProductFits(rows, columns)
  THEN {rows * columns # len}
  ELSE BOOLEAN

\* A check that takes the first entry of the shape for the rows.
ShapeSwapped(shape, columns, rows) == shape[1] # rows \/ shape[2] # columns

\* std::get<0>(type_info) != num_columns || std::get<1>(type_info) != num_rows
ShapeDiffers(shape, columns, rows) == shape[1] # columns \/ shape[2] # rows

InSetUniformMatrix(pc) == call.op = "SetUniformMatrix" /\ call.pc = pc

UniformMatrixCall ==
  /\ call.op = "idle"
  /\ \E ty \in DeclaredTypes, nm \in UniformNames, len \in MatrixLengths :
       \E c \in MatrixDims, r \in MatrixDims, transpose \in BOOLEAN :
         call' = [op |-> "SetUniformMatrix", pc |-> "length", ok |-> TRUE,
                  uniforms |-> Uniforms(ty), name |-> nm,
                  num_columns |-> c, num_rows |-> r, transpose |-> transpose,
                  len |-> len, uniform_type |-> "unset", uniform_location |-> -1,
                  used |-> FALSE, glError |-> FALSE, uploaded |-> FALSE,
                  queries |-> <<>>, activated |-> FALSE, uploads |-> <<>>]
  /\ gpu' = [NoObjects EXCEPT !.prog = "live"]
  /\ UNCHANGED <<nat, sharedVars>>

\* if (num_rows * num_columns != matrix.size()) return INVALID_ARGUMENT
UniformMatrixLength ==
  /\ InSetUniformMatrix("length")
  /\ \E differs \in LengthDiffers(call.num_rows, call.num_columns, call.len) :
       call' = IF differs THEN [call EXCEPT !.pc = "done", !.ok = FALSE]
               ELSE [call EXCEPT !.pc = "type"]
  /\ UNCHANGED <<nat, gpu, sharedVars>>

\* GetResourceProperty(name, GL_UNIFORM, GL_TYPE), the lookup in type_mapping
\* and the comparison of the shape.
UniformMatrixType ==
  /\ InSetUniformMatrix("type")
  /\ \E glError \in BOOLEAN :
       LET q == GetResourceProperty(call.uniforms, call.name, "GL_TYPE", glError)
           asked == [call EXCEPT !.queries = Append(@, "GL_TYPE")] IN
       call' =
         IF ~q.ok
         THEN [asked EXCEPT !.pc = "done", !.ok = FALSE, !.glError = glError]
         ELSE IF q.value \notin DOMAIN type_mapping
         THEN [asked EXCEPT !.pc = "done", !.ok = FALSE, !.uniform_type = q.value]
         ELSE IF ShapeDiffers(type_mapping[q.value], call.num_columns, call.num_rows)
         THEN [asked EXCEPT !.pc = "done", !.ok = FALSE, !.uniform_type = q.value]
         ELSE [asked EXCEPT !.pc = "location", !.uniform_type = q.value]
  /\ UNCHANGED <<nat, gpu, sharedVars>>

\* GetResourceProperty(name, GL_UNIFORM, GL_LOCATION)
UniformMatrixLocation ==
  /\ InSetUniformMatrix("location")
  /\ \E glError \in BOOLEAN :
       LET q == GetResourceProperty(call.uniforms, call.name, "GL_LOCATION", glError)
           asked == [call EXCEPT !.queries = Append(@, "GL_LOCATION")] IN
       call' = IF q.ok THEN [asked EXCEPT !.pc = "use", !.uniform_location = q.value]
               ELSE [asked EXCEPT !.pc = "done", !.ok = FALSE, !.glError = glError]
  /\ UNCHANGED <<nat, gpu, sharedVars>>

\* program_->Use(), then the cleanup glUseProgram(0) is armed
UniformMatrixUse ==
  /\ InSetUniformMatrix("use")
  /\ \E glError \in BOOLEAN :
       call' = IF glError
               THEN [call EXCEPT !.pc = "done", !.ok = FALSE, !.glError = TRUE]
               ELSE [call EXCEPT !.pc = "set", !.used = TRUE, !.activated = TRUE]
  /\ UNCHANGED <<nat, gpu, sharedVars>>

\* glUniformMatrix*fv(uniform_location, 1, transpose, matrix.data()); the
\* cleanup is never released, so glUseProgram(0) runs on either outcome.
UniformMatrixSet ==
  /\ InSetUniformMatrix("set")
  /\ \E glError \in BOOLEAN :
       call' = [call EXCEPT !.pc = "done", !.ok = ~glError, !.glError = glError,
                            !.uploaded = ~glError, !.used = FALSE,
                            !.uploads =
                              Append(@, [fn |-> Setter(type_mapping[call.uniform_type]),
                                         location |-> call.uniform_location,
                                         count |-> 1,
                                         transpose |-> call.transpose])]
  /\ UNCHANGED <<nat, gpu, sharedVars>>


\* ------------------------------------------------------- Rasterizer::Render
\* Colour and depth values are in tenths.
AlphaOne == 10

\* (clear_r, clear_g, clear_b, clear_depth) of the rasterizers under test.
ClearChoices == {<<1, 2, 3, 10>>, <<1, 2, 3, 5>>, <<20, 0, 10, 0>>}

Pixels == 1 .. MaxPixels

\* The content of an attachment nothing has been written to, and what a
\* fragment shader has written.
Garbage == <<-1, -1, -1, -1>>

Shaded == <<-2, -2, -2, -2>>

Clamp(v) == IF v < 0 THEN 0 ELSE IF v > AlphaOne THEN AlphaOne ELSE v

\* A channel of the colour attachment as it is stored: RGBA32F keeps the
\* value, RGBA8 keeps the nearest of the 256 levels of the clamped value.
Stored(type, v) ==
  IF type = "float" THEN v ELSE (Clamp(v) * 255 * 2 + AlphaOne) \div (2 * AlphaOne)

\* glClearColor(clear_r_, clear_g_, clear_b_, 1.0): what glClear writes.
ClearDepthAsAlpha(clear) == <<clear[1], clear[2], clear[3], clear[4]>>

ClearValue(clear) == <<clear[1], clear[2], clear[3], AlphaOne>>

StoredPixel(type, px) == [ch \in 1 .. 4 |-> Stored(type, px[ch])]

\* The shader storage blocks of the programs under test: none (the empty
\* shaders), triangular_mesh at binding 0, and a variant with two blocks.
NoBlocks == [nm \in {} |-> [GL_BUFFER_BINDING |-> 0]]

BlockLayouts ==
  { NoBlocks,
    [nm \in {"triangular_mesh"} |-> [GL_BUFFER_BINDING |-> 0]],
    [nm \in {"triangular_mesh", "geometry"} |->
       [GL_BUFFER_BINDING |-> IF nm = "geometry" THEN 0 ELSE 1]] }

Slots == {0, 1}

HeldNames == {"triangular_mesh", "geometry"}

\* shader_storage_buffers_ in the orders its iteration may take.
HeldOrders ==
  {q \in SeqsUpTo(HeldNames, Cardinality(HeldNames)) :
     \A i, j \in 1 .. Len(q) : i # j => q[i] # q[j]}

\* The slot a buffer is bound to, from the answer of the query.
FirstSlot(q) == 0

BindingSlot(q) == q.value

InRender(pc) == call.op = "Render" /\ call.pc = pc

\* A failed step: the status is returned; program_cleanup, once armed, runs
\* glUseProgram(0).
RenderFail(c) == [c EXCEPT !.pc = "done", !.ok = FALSE, !.glError = TRUE,
                           !.used = FALSE]

RenderFailed == RenderFail(call)

\* The GL calls of a step that are issued when the failed-th of them reports
\* an error (0: none does), appended to the log of the call.
Issue(c, calls, failed) ==
  [c EXCEPT !.log = @ \o (IF failed = 0 THEN calls ELSE SubSeq(calls, 1, failed))]

StateCalls == <<"blend", "depthTest", "cullFace">>

FramebufferCalls == <<"bindFramebuffer", "viewport">>

ClearCalls == <<"clearColor", "clearDepth", "clear">>

\* A bind that leaves the binding as it finds it.
KeepsBinding(fb) == fb

\* glBindFramebuffer(GL_FRAMEBUFFER, frame_buffer_)
BindFramebuffer(fb) == "own"

\* The framebuffer bound when Render is called: the one bound last, or one of
\* the caller's.
RenderInputs(c) ==
  {[c EXCEPT !.pc = "state", !.ok = TRUE, !.glError = FALSE,
             !.num_points = n, !.len = len, !.todo = c.held,
             !.result = [p \in Pixels |-> Garbage], !.read = FALSE,
             !.log = <<>>, !.framebuffer = fb, !.boundBefore = fb,
             !.foreignWritten = FALSE,
             !.before = [color |-> c.color, depth |-> c.depth]] :
     n \in 0 .. MaxPoints,
     len \in {<<MaxPixels, 0>>, <<MaxPixels - 1, 0>>},
     fb \in {c.framebuffer, "other"}}

\* A rasterizer as Rasterizer<T>::Create and SetShaderStorageBuffer leave it,
\* and a call of Render on it.
RasterizerRenderCall ==
  /\ call.op = "idle"
  /\ \E ty \in ElementTypes, clear \in ClearChoices, blocks \in BlockLayouts,
        held \in HeldOrders :
       call' \in RenderInputs(
         [op |-> "Render", pc |-> "state", ok |-> TRUE, glError |-> FALSE,
          type |-> ty, clear |-> clear, blocks |-> blocks, held |-> held,
          todo |-> held, num_points |-> 0, len |-> <<0, 0>>,
          slots |-> [sl \in Slots |-> "none"], skipped |-> {},
          used |-> FALSE, framebuffer |-> "own", boundBefore |-> "own",
          foreignWritten |-> FALSE, viewport |-> <<0, 0>>, log |-> <<>>,
          color |-> [p \in Pixels |-> Garbage],
          depth |-> [p \in Pixels |-> -1],
          before |-> [color |-> [p \in Pixels |-> Garbage],
                      depth |-> [p \in Pixels |-> -1]],
          result |-> [p \in Pixels |-> Garbage], read |-> FALSE, renders |-> 1])
  /\ gpu' = [NoObjects EXCEPT !.prog = "live", !.rb = {1, 2}, !.fb = {1}]
  /\ UNCHANGED <<nat, sharedVars>>

\* glDisable(GL_BLEND), glEnable(GL_DEPTH_TEST), glDisable(GL_CULL_FACE)
RasterizerState ==
  /\ InRender("state")
  /\ \E failed \in 0 .. Len(StateCalls) :
       LET c == Issue(call, StateCalls, failed) IN
       call' = IF failed # 0 THEN RenderFail(c)
               ELSE [c EXCEPT !.pc = "buffers", !.skipped = {}]
  /\ UNCHANGED <<nat, gpu, sharedVars>>

\* One iteration of the loop over shader_storage_buffers_: the query of
\* GL_BUFFER_BINDING, continue when it fails, else BindBufferBase(slot).
RasterizerBindBuffer ==
  /\ InRender("buffers") /\ call.todo # <<>>
  /\ \E queryError \in BOOLEAN, glError \in BOOLEAN :
       LET name == Head(call.todo)
           q == GetResourceProperty(call.blocks, name, "GL_BUFFER_BINDING",
                                    queryError)
           c == Issue(call, <<"bindBuffer">>, 0)
       IN call' =
            IF ~q.ok
            THEN [call EXCEPT !.todo = Tail(@), !.skipped = @ \cup {name},
                              !.glError = @ \/ queryError]
            ELSE IF glError THEN RenderFail(c)
            ELSE [c EXCEPT !.todo = Tail(@), !.slots[BindingSlot(q)] = name]
  /\ UNCHANGED <<nat, gpu, sharedVars>>

\* program_->Use(), then program_cleanup is armed
RasterizerUse ==
  /\ InRender("buffers") /\ call.todo = <<>>
  /\ \E glError \in BOOLEAN :
       LET c == Issue(call, <<"useProgram">>, 0) IN
       call' = IF glError THEN RenderFail(c)
               ELSE [c EXCEPT !.pc = "framebuffer", !.used = TRUE]
  /\ UNCHANGED <<nat, gpu, sharedVars>>

\* render_targets_->BindFramebuffer(), glViewport(0, 0, GetWidth(), GetHeight())
RasterizerFramebuffer ==
  /\ InRender("framebuffer")
  /\ \E failed \in 0 .. Len(FramebufferCalls) :
       LET c == Issue(call, FramebufferCalls, failed)
           bound == IF failed = 1 THEN c
                    ELSE [c EXCEPT !.framebuffer = BindFramebuffer(@)]
       IN call' = IF failed # 0 THEN RenderFail(bound)
                  ELSE [bound EXCEPT !.pc = "clear",
                                     !.viewport = <<MaxPixels, 1>>]
  /\ UNCHANGED <<nat, gpu, sharedVars>>

\* glClearColor, glClearDepthf, glClear(GL_COLOR_BUFFER_BIT | GL_DEPTH_BUFFER_BIT):
\* the clear is of the framebuffer that is bound.
RasterizerClear ==
  /\ InRender("clear")
  /\ \E failed \in 0 .. Len(ClearCalls) :
       LET c == Issue(call, ClearCalls, failed) IN
       call' = IF failed # 0 THEN RenderFail(c)
               ELSE IF c.framebuffer # "own"
               THEN [c EXCEPT !.pc = "draw", !.foreignWritten = TRUE]
               ELSE [c EXCEPT
                       !.pc = "draw",
                       !.color = [p \in Pixels |->
                                    StoredPixel(call.type, ClearValue(call.clear))],
                       !.depth = [p \in Pixels |-> Clamp(call.clear[4])]]
  /\ UNCHANGED <<nat, gpu, sharedVars>>

\* glDrawArrays(GL_POINTS, 0, num_points): the fragments of the primitives
\* the shaders emit cover some of the pixels of the bound framebuffer.
RasterizerDraw ==
  /\ InRender("draw")
  /\ \E glError \in BOOLEAN :
       \E cover \in IF call.num_points = 0 THEN {{}} ELSE SUBSET Pixels :
         LET c == Issue(call, <<"draw">>, 0) IN
         call' = IF glError THEN RenderFail(c)
                 ELSE IF c.framebuffer # "own"
                 THEN [c EXCEPT !.pc = "read",
                                !.foreignWritten = @ \/ cover # {}]
                 ELSE [c EXCEPT
                         !.pc = "read",
                         !.color = [p \in Pixels |->
                                      IF p \in cover THEN Shaded ELSE @[p]]]
  /\ UNCHANGED <<nat, gpu, sharedVars>>

\* render_targets_->ReadPixels(result), then program_cleanup.release()
RasterizerRead ==
  /\ InRender("read")
  /\ \E accepted \in AcceptedSizes(MaxPixels, 1), glError \in BOOLEAN :
       LET c == Issue(call, <<"readPixels">>, 0) IN
       call' = IF call.len \notin accepted
               THEN [RenderFailed EXCEPT !.glError = call.glError]
               ELSE IF glError THEN [RenderFail(c) EXCEPT !.read = TRUE]
               ELSE [c EXCEPT !.pc = "done", !.read = TRUE,
                              !.result = IF c.framebuffer = "own" THEN c.color
                                         ELSE [p \in Pixels |-> Garbage]]
  /\ UNCHANGED <<nat, gpu, sharedVars>>

\* Render is called again on the same rasterizer.
RasterizerRenderAgain ==
  /\ InRender("done") /\ call.renders < MaxRenders
  /\ call' \in RenderInputs([call EXCEPT !.renders = @ + 1])
  /\ UNCHANGED <<nat, gpu, sharedVars>>


\* --------------------------------------- Rasterizer::SetShaderStorageBuffer
\* The data of the uploads under test, of different lengths.
DataChoices == {<<>>, <<1>>, <<2, 3>>}

NoBuffers == [nm \in {} |-> 0]

\* A store that keeps what the new data does not cover.
OverwritePrefix(old, data) ==
  [k \in 1 .. (IF Len(old) > Len(data) THEN Len(old) ELSE Len(data)) |->
     IF k <= Len(data) THEN data[k] ELSE old[k]]

\* glBufferData(GL_SHADER_STORAGE_BUFFER, size, data, GL_DYNAMIC_COPY): a
\* new data store, any earlier one is deleted.
glBufferData(old, data) == data

\* A cleanup that was released: the binding stays.
BindingKept(bound) == bound
\* bind_cleanup: glBindBuffer(GL_SHADER_STORAGE_BUFFER, 0)
BindCleanup(bound) == 0

InSetBuffer(pc) == call.op = "SetShaderStorageBuffer" /\ call.pc = pc

SetBufferInputs(c) ==
  {[c EXCEPT !.pc = "count", !.ok = TRUE, !.name = nm, !.data = d,
             !.failedAt = "none", !.boundBefore = c.bound,
             !.indexedBefore = c.indexed,
             !.heldBefore = DOMAIN c.shader_storage_buffers] :
     nm \in HeldNames, d \in DataChoices}

\* A rasterizer as Rasterizer<T>::Create leaves it, and a call of
\* SetShaderStorageBuffer on it.
SetBufferCall ==
  /\ call.op = "idle"
  /\ call' \in SetBufferInputs(
       [op |-> "SetShaderStorageBuffer", pc |-> "count", ok |-> TRUE,
        name |-> "geometry", data |-> <<>>,
        shader_storage_buffers |-> NoBuffers,
        stores |-> <<>>, generated |-> [nm \in HeldNames |-> 0],
        bound |-> 0, indexed |-> [index \in Slots |-> 0],
        failedAt |-> "none", boundBefore |-> 0,
        indexedBefore |-> [index \in Slots |-> 0], heldBefore |-> {},
        calls |-> 1])
  /\ gpu' = [NoObjects EXCEPT !.prog = "live", !.rb = {1, 2}, !.fb = {1}]
  /\ UNCHANGED <<nat, sharedVars>>

\* if (shader_storage_buffers_.count(name) == 0): ShaderStorageBuffer::Create
\* (glGenBuffers) and the insertion under the name.
SetBufferCreate ==
  /\ InSetBuffer("count")
  /\ IF call.name \in DOMAIN call.shader_storage_buffers
     THEN call' = [call EXCEPT !.pc = "bind"]
     ELSE \E glError \in BOOLEAN :
            call' =
              IF glError
              THEN [call EXCEPT !.pc = "done", !.ok = FALSE, !.failedAt = "create"]
              ELSE LET id == Len(call.stores) + 1 IN
                   [call EXCEPT
                      !.pc = "bind",
                      !.shader_storage_buffers =
                         [nm \in DOMAIN @ \cup {call.name} |->
                            IF nm = call.name THEN id ELSE @[nm]],
                      !.stores = Append(@, <<>>),
                      !.generated[call.name] = @ + 1]
  /\ UNCHANGED <<nat, gpu, sharedVars>>

\* Upload: glBindBuffer(GL_SHADER_STORAGE_BUFFER, buffer_), bind_cleanup armed
SetBufferBind ==
  /\ InSetBuffer("bind")
  /\ \E glError \in BOOLEAN :
       call' = IF glError
               THEN [call EXCEPT !.pc = "done", !.ok = FALSE, !.failedAt = "bind"]
               ELSE [call EXCEPT
                       !.pc = "data",
                       !.bound = call.shader_storage_buffers[call.name]]
  /\ UNCHANGED <<nat, gpu, sharedVars>>

\* Upload: glBufferData on the bound buffer; bind_cleanup is not released and
\* binds buffer 0 on either outcome.
SetBufferData ==
  /\ InSetBuffer("data")
  /\ \E glError \in BOOLEAN :
       call' = IF glError
               THEN [call EXCEPT !.pc = "done", !.ok = FALSE, !.failedAt = "data",
                                  !.bound = BindCleanup(@)]
               ELSE [call EXCEPT
                       !.pc = "done", !.bound = BindCleanup(@),
                       !.stores[call.bound] = glBufferData(@, call.data)]
  /\ UNCHANGED <<nat, gpu, sharedVars>>

\* ShaderStorageBuffer::BindBufferBase(index) on a held buffer, between two
\* calls: glBindBufferBase binds the buffer to the indexed slot and to the
\* generic binding point of the target.
SetBufferBindBase ==
  /\ InSetBuffer("done") \/ InSetBuffer("based")
  /\ \E nm \in DOMAIN call.shader_storage_buffers, index \in Slots, glError \in BOOLEAN :
       call' = IF glError THEN [call EXCEPT !.pc = "based"]
               ELSE [call EXCEPT !.pc = "based",
                                 !.indexed[index] = call.shader_storage_buffers[nm],
                                 !.bound = call.shader_storage_buffers[nm]]
  /\ UNCHANGED <<nat, gpu, sharedVars>>

\* SetShaderStorageBuffer is called again on the same rasterizer.
SetBufferAgain ==
  /\ InSetBuffer("done") \/ InSetBuffer("based")
  /\ call.calls < MaxUploads
  /\ call' \in SetBufferInputs([call EXCEPT !.calls = @ + 1])
  /\ UNCHANGED <<nat, gpu, sharedVars>>


\* The caller takes the status of a call.
UnitReturn ==
  /\ call.op # "idle" /\ call.pc = "done"
  /\ call.op \in {"ProgramCreate", "TargetsCreate"} => call.caller = "test"
  /\ call' = UIdle
  /\ UNCHANGED <<nat, gpu, sharedVars>>


\* ------------------------------------------------------------ properties
After(t) == {c \in Contexts : <<t, c>> \in current'}

OthersKeep(t) == \A u \in Threads \ {t} : After(u) = CurrentOn(u)

\* The positions of a call at which its next step is a GPU call.
GpuPcs == {"state", "use", "bindFramebuffer", "clearColor", "clear", "draw", "read",
           "unuse", "queryType", "upload", "ssbCreate", "ssbUpload"}

RenderDone(t) == th[t].op = "Render" /\ th[t].pc = "done"

\* The render routine of the threads: num_points = 0, a result buffer of the
\* right size.
RoutineDone(t) == RenderDone(t) /\ th[t].n = 0 /\ th[t].b

\* C1: instances with distinct clear colours rendered (num_points = 0) by
\* threads under every interleaving, with no native failure and no storage
\* buffer involved: every Render succeeds, the thread's result buffer holds
\* the clear colour of the instance it rendered, undrawn, and every run of
\* the routine so far counted one success.
C1_RenderIsolation ==
  (faults = 0 /\ ~ssbUsed) =>
    /\ \A i, j \in Instances :
         (i # j /\ inst[i].state = "live" /\ inst[j].state = "live")
           => inst[i].clear # inst[j].clear
    /\ \A t \in Threads :
         /\ num_successes[t] = renders[t]
         /\ RoutineDone(t) =>
              th[t].ok /\ result[t] = <<inst[th[t].obj].clear, FALSE>>

\* Two threads have each rendered an instance of their own, at the same time,
\* and hold different colours.
C1_TwoThreadsOwnColours ==
  /\ faults = 0 /\ ~ssbUsed
  /\ \E t, u \in Threads :
       /\ t # u /\ RoutineDone(t) /\ RoutineDone(u)
       /\ th[t].obj # th[u].obj
       /\ th[t].ok /\ th[u].ok
       /\ result[t] = <<inst[th[t].obj].clear, FALSE>>
       /\ result[u] = <<inst[th[u].obj].clear, FALSE>>
       /\ result[t] # result[u]

\* C2: in Render, SetUniformMatrix and SetShaderStorageBuffer of a
\* RasterizerWithContext, the instance's own context is the current one of the
\* calling thread at every GPU call, and is not current when the call returns.
C2_OwnContextAtGpuCalls ==
  \A t \in Threads :
    th[t].op \in {"Render", "SetUniformMatrix", "SetShaderStorageBuffer"} =>
      /\ th[t].pc \in GpuPcs => CurrentOn(t) = {th[t].obj}
      /\ th[t].pc = "done" => th[t].obj \notin CurrentOn(t)

\* C3: when RasterizerWithContext::Render returns, on its successful path or
\* after a failure at any step of Rasterizer::Render, the instance's context
\* is not current on the calling thread (the native call that unbinds it
\* having worked).
C3_RenderReleases ==
  \A t \in Threads :
    (RenderDone(t) /\ th[t].rel # "err") => th[t].obj \notin CurrentOn(t)

\* A Render that made its context current, failed in Rasterizer::Render and
\* returned with the context released.
C3_FailedRenderReleased ==
  \E t \in Threads :
    /\ RenderDone(t) /\ ~th[t].ok
    /\ th[t].mc = "ok" /\ th[t].rel = "ok"
    /\ CurrentOn(t) = {}

\* C4: RasterizerWithContext::Create builds the program and the render
\* targets only while the new context is current on the creating thread, and
\* that context is not current when Create returns.
C4_CreateUnderOwnContext ==
  \A t \in Threads :
    th[t].op = "Create" =>
      /\ th[t].pc \in {"program", "targets"} => CurrentOn(t) = {th[t].obj}
      /\ (th[t].pc = "done" /\ th[t].rel # "err") => th[t].obj \notin CurrentOn(t)

\* C5: when a failed Create comes to delete the program it built, the context
\* still exists and is current on the creating thread.
C5_ProgramDeletedUnderContext ==
  \A t \in Threads :
    (th[t].op = "Create" /\ th[t].pc = "dtorEnd" /\ th[t].held) =>
      egl[th[t].obj].context /\ CurrentOn(t) = {th[t].obj}

\* C6: the deletions of ~RasterizerWithContext (program, render targets,
\* storage buffers) are issued while the instance's context exists and is
\* current on the destroying thread.
C6_DeletesUnderOwnContext ==
  \A t \in Threads :
    (th[t].op = "Destroy"
       /\ th[t].pc \in {"resetProgram", "resetTargets", "resetBuffers"}) =>
      egl[th[t].obj].context /\ CurrentOn(t) = {th[t].obj}

\* C7: a ~RasterizerWithContext whose MakeCurrent failed has aborted the
\* process (so that no deletion follows).
C7_AbortOnFailedMakeCurrent ==
  \A t \in Threads :
    (th[t].op = "Destroy" /\ th[t].mc = "err") => aborted

\* C8: the steps ~EGLOffscreenContext has executed for a context are a prefix
\* of release, destroy context, destroy surface, terminate display; each one
\* that worked has destroyed its object; one that failed is the last one and
\* the process has exited.
C8_TeardownOrder ==
  \A c \in Contexts :
    /\ Len(teardown[c]) <= Len(TeardownOrder)
    /\ \A k \in 1..Len(teardown[c]) :
         /\ teardown[c][k].step = TeardownOrder[k]
         /\ ~teardown[c][k].ok => (k = Len(teardown[c]) /\ aborted)
         /\ (teardown[c][k].ok /\ k = 2) => ~egl[c].context
         /\ (teardown[c][k].ok /\ k = 3) => ~egl[c].surface
         /\ (teardown[c][k].ok /\ k = 4) => ~egl[c].display

\* A destructor that stopped at a failed eglDestroySurface: the context is
\* destroyed, the surface and the display are not.
C8_StoppedAtFailedStep ==
  \E c \in Contexts :
    /\ Len(teardown[c]) = 3
    /\ teardown[c][2].ok /\ ~teardown[c][3].ok
    /\ aborted
    /\ ~egl[c].context /\ egl[c].surface /\ egl[c].display

\* A step of thread t that is a call of EGLOffscreenContext::Release.
ReleaseStep(t) == th[t].pc \in {"release", "dtorRelease"} /\ th'[t] # th[t]

\* C9: Release on thread t for context c: if c is current on t and the native
\* call works, t has no current context afterwards; if c is not current on t,
\* the call succeeds and t's binding is unchanged; the bindings of the other
\* threads are unchanged.
C9_ReleaseEffect ==
  [][\A t \in Threads :
       ReleaseStep(t) =>
         /\ (th[t].obj \in CurrentOn(t) /\ th'[t].rel = "ok") => After(t) = {}
         /\ th[t].obj \notin CurrentOn(t) =>
              (th'[t].rel = "ok" /\ After(t) = CurrentOn(t))
         /\ OthersKeep(t)]_vars

\* One thread has released a context while a different one was current and
\* keeps that one; another thread has released its current context.
C9_BothCases ==
  \E t, u \in Threads :
    /\ t # u
    /\ th[t].pc = "done" /\ th[t].rel = "ok"
    /\ CurrentOn(t) # {} /\ th[t].obj \notin CurrentOn(t)
    /\ th[u].pc = "done" /\ th[u].rel = "ok" /\ th[u].mc = "ok"
    /\ CurrentOn(u) = {}

\* A step of thread t that is a call of EGLOffscreenContext::MakeCurrent.
MakeCurrentStep(t) == th[t].pc = "makeCurrent" /\ th'[t] # th[t]

\* C10: a MakeCurrent that works on thread t for context c leaves c as the
\* only current context of t and changes no other thread's binding; every
\* thread has at most one current context at every state.
C10_SingleCurrent ==
  /\ [](\A t \in Threads : Cardinality(CurrentOn(t)) <= 1)
  /\ [][\A t \in Threads :
          MakeCurrentStep(t) =>
            /\ th'[t].mc = "ok" => After(t) = {th[t].obj}
            /\ th'[t].mc = "err" => After(t) = CurrentOn(t)
            /\ OthersKeep(t)]_vars

\* A thread renders under its own context while the other thread keeps a
\* different context current.
C10_TwoThreadsBound ==
  \E t, u \in Threads :
    /\ t # u
    /\ th[t].op = "Render" /\ th[t].mc = "ok" /\ th[t].pc = "clear"
    /\ CurrentOn(t) = {th[t].obj}
    /\ CurrentOn(u) # {} /\ CurrentOn(u) # CurrentOn(t)

\* ----------------------------------- properties of the single-threaded use
Reverse(q) == [k \in 1..Len(q) |-> q[Len(q) + 1 - k]]

EglCreateDone == call.op = "EglCreate" /\ call.pc = "done"

\* C11: when a native step of EGLOffscreenContext::Create fails, Create
\* returns an error and no context object, and the native resources acquired
\* so far have been released in the reverse order of their acquisition, none
\* being left; when no step fails it returns the object holding the display,
\* the surface and the context.
C11_CreateReleasesOnFailure ==
  EglCreateDone =>
    IF call.failed # "none"
    THEN /\ ~call.ok /\ call.obj = {}
         /\ nat = {}
         /\ call.released = Reverse(call.acquired)
    ELSE /\ call.ok /\ call.released = <<>>
         /\ call.obj = {"display", "surface", "context"} /\ nat = call.obj

\* Context creation failed: the surface was destroyed, then the display
\* terminated.
C11_ContextFailedUnwound ==
  /\ EglCreateDone /\ call.failed = "context"
  /\ call.released = <<"surface", "display">>
  /\ nat = {}

ProgramCreateDone == call.op = "ProgramCreate" /\ call.pc = "done"

AllShadersGood == \A k \in 1..Len(call.shaders) : call.shaders[k] = "good"

\* C12: Program::Create hands back a Program object only if every shader
\* compiled and the program linked; otherwise it returns an error and the
\* program object does not exist.
C12_AllOrNothing ==
  ProgramCreateDone =>
    /\ call.obj <=> call.ok
    /\ call.obj => (AllShadersGood /\ gpu.prog = "linked")
    /\ ~call.obj => gpu.prog \in {"none", "deleted"}

C14_DeleteAfterDetach ==
  call.op = "ProgramCreate" => \A k \in 1..MaxShaders : gpu.sh[k] # "flagged"

ReadPixelsDone == call.op = "ReadPixels" /\ call.pc = "done"

LengthMatches == call.len = <<call.width * call.height, 0>>

\* C15: ReadPixels, for float and for uint8 elements, fails when the length
\* of the buffer differs from width * height * 4; no readback has then been
\* issued and the buffer is as the caller passed it.
C15_WrongLengthFails ==
  (ReadPixelsDone /\ ~LengthMatches) =>
    /\ ~call.ok
    /\ ~call.readback
    /\ call.buffer = "caller"

\* A buffer of three quarters of the size was refused, untouched.
C15_ShortBufferRefused ==
  /\ ReadPixelsDone
  /\ call.width = 1 /\ call.height = 1 /\ call.len = <<0, 3>>
  /\ call.type = "uint8"
  /\ ~call.ok /\ ~call.readback /\ call.buffer = "caller"

SetUniformMatrixDone == call.op = "SetUniformMatrix" /\ call.pc = "done"

Declared == call.name \in DOMAIN call.uniforms

DeclaredMatrix ==
  Declared /\ call.uniforms[call.name].GL_TYPE \in DOMAIN DeclaredShape

\* C18: SetUniformMatrix fails when num_rows * num_columns is not the length
\* of the data; it fails when the shape the uniform is declared with is not
\* (num_columns, num_rows); for a uniform declared 4x4 it succeeds with
\* num_columns = num_rows = 4 and 16 elements.
C18_LengthAndShapeChecked ==
  SetUniformMatrixDone =>
    /\ (~IntProductFits(call.num_rows, call.num_columns)
        \/ call.num_rows * call.num_columns # call.len)
         => (~call.ok /\ ~call.uploaded)
    /\ (DeclaredMatrix
        /\ DeclaredShape[call.uniforms[call.name].GL_TYPE]
             # <<call.num_columns, call.num_rows>>)
         => (~call.ok /\ ~call.uploaded)
    /\ (/\ Declared /\ call.uniforms[call.name].GL_TYPE = "GL_FLOAT_MAT4"
        /\ call.num_columns = 4 /\ call.num_rows = 4 /\ call.len = 16
        /\ ~call.glError)
         => (call.ok /\ call.uploaded)

\* A 2x3 uniform was asked for as 3x2 with six elements, and refused.
C18_TransposedShapeRefused ==
  /\ SetUniformMatrixDone
  /\ Declared /\ call.uniforms[call.name].GL_TYPE = "GL_FLOAT_MAT2x3"
  /\ call.num_columns = 3 /\ call.num_rows = 2 /\ call.len = 6
  /\ ~call.ok /\ ~call.uploaded /\ ~call.glError

\* The length differs from the product for certain.
LengthRefused ==
  /\ IntProductFits(call.num_rows, call.num_columns)
  /\ call.num_rows * call.num_columns # call.len

\* The request is one that validation rejects.
Rejected ==
  \/ LengthRefused
  \/ ~Declared
  \/ call.uniforms[call.name].GL_TYPE \notin DOMAIN DeclaredShape
  \/ DeclaredShape[call.uniforms[call.name].GL_TYPE]
       # <<call.num_columns, call.num_rows>>

\* C29: a SetUniformMatrix call that validation rejects (length mismatch,
\* name not an active uniform, unsupported declared type, shape mismatch)
\* changes nothing: at no point of the call is the program activated or a
\* uniform written, and the call fails; the length check comes first, so a
\* call with a wrong length makes no GPU query at all.
C29_RejectedChangesNothing ==
  (call.op = "SetUniformMatrix" /\ Rejected) =>
    /\ ~call.activated /\ ~call.used
    /\ call.uploads = <<>> /\ ~call.uploaded
    /\ gpu = [NoObjects EXCEPT !.prog = "live"]
    /\ call.pc # "done" \/ ~call.ok
    /\ LengthRefused => call.queries = <<>>

\* A 2x3 uniform asked for as 2x3 with eight elements was refused unasked.
C29_WrongLengthRefusedUnqueried ==
  /\ SetUniformMatrixDone
  /\ Declared /\ call.uniforms[call.name].GL_TYPE = "GL_FLOAT_MAT2x3"
  /\ call.num_columns = 2 /\ call.num_rows = 3 /\ call.len = 8
  /\ ~call.ok /\ call.queries = <<>> /\ call.uploads = <<>>

\* The upload of the request: the setter of the declared shape, once, at the
\* uniform's location, with the caller's transpose flag.
MatchingUpload(u) ==
  /\ u.fn \in DOMAIN UploadShape
  /\ UploadShape[u.fn] = DeclaredShape[call.uniforms[call.name].GL_TYPE]
  /\ UploadShape[u.fn] = <<call.num_columns, call.num_rows>>
  /\ u.location = call.uniforms[call.name].GL_LOCATION
  /\ u.count = 1
  /\ u.transpose = call.transpose

\* C30: for each of the nine float-matrix types SetUniformMatrix accepts
\* exactly the request whose (num_columns, num_rows) is the declared (columns,
\* rows), with data of that many elements, and then issues the upload call of
\* that dimension pair once, at the uniform's location, with the caller's
\* transpose flag; a uniform declared with any other type is rejected for
\* every shape, and nothing is uploaded.
C30_MatchingSetterOnce ==
  (SetUniformMatrixDone /\ Declared) =>
    LET ty == call.uniforms[call.name].GL_TYPE IN
    IF ty \in DOMAIN DeclaredShape
    THEN /\ Len(call.uploads) <= 1
         /\ \A k \in 1..Len(call.uploads) : MatchingUpload(call.uploads[k])
         /\ ~call.glError =>
              /\ call.ok <=> (/\ DeclaredShape[ty] = <<call.num_columns, call.num_rows>>
                              /\ call.len = call.num_columns * call.num_rows)
              /\ call.ok => Len(call.uploads) = 1
    ELSE ~call.ok /\ call.uploads = <<>>

\* A 3x4 uniform was set, transposed, by glUniformMatrix3x4fv.
C30_NonSquareTransposedSet ==
  /\ SetUniformMatrixDone /\ call.ok
  /\ Declared /\ call.uniforms[call.name].GL_TYPE = "GL_FLOAT_MAT3x4"
  /\ call.num_columns = 3 /\ call.num_rows = 4 /\ call.len = 12 /\ call.transpose
  /\ Len(call.uploads) = 1
  /\ call.uploads[1].fn = "glUniformMatrix3x4fv"

\* C19: setting a uniform under a name that is no active uniform of the
\* program is an error, whatever the dimensions and the data:
\* GetResourceProperty fails for the name and SetUniformMatrix returns the
\* failure without uploading anything.
C19_UnknownUniformIsError ==
  (SetUniformMatrixDone /\ ~Declared) =>
    /\ ~call.ok
    /\ ~call.uploaded
    /\ \A property \in {"GL_TYPE", "GL_LOCATION"}, glError \in BOOLEAN :
         ~GetResourceProperty(call.uniforms, call.name, property, glError).ok

\* A well-formed 4x4 upload under an unknown name was refused by the query.
C19_UnknownNameRefused ==
  /\ SetUniformMatrixDone /\ ~Declared
  /\ call.num_columns = 4 /\ call.num_rows = 4 /\ call.len = 16
  /\ ~call.ok /\ ~call.glError /\ ~call.uploaded

RasterizerRenderDone == call.op = "Render" /\ call.pc = "done"

EmptyRenderRead ==
  RasterizerRenderDone /\ call.ok /\ call.num_points = 0

\* C17 as the specification states it: channel 3 of every pixel is the clear
\* depth of the rasterizer.
C17_ChannelThreeIsClearDepth ==
  EmptyRenderRead =>
    \A p \in Pixels :
      call.result[p] = StoredPixel(call.type, ClearDepthAsAlpha(call.clear))

\* C17: Render with num_points = 0 into a buffer of the right size fills
\* every pixel with the clear colour in channels 0, 1, 2, as the element type
\* stores it, and with the stored 1.0 in channel 3, for every clear colour
\* and clear depth and on every repetition; the clear depth fills the depth
\* attachment, which is not read back.
C17_ClearColourAndOpaqueAlpha ==
  EmptyRenderRead =>
    /\ call.len = <<MaxPixels, 0>>
    /\ \A p \in Pixels :
         /\ call.result[p][1] = Stored(call.type, call.clear[1])
         /\ call.result[p][2] = Stored(call.type, call.clear[2])
         /\ call.result[p][3] = Stored(call.type, call.clear[3])
         /\ call.result[p][4] = Stored(call.type, AlphaOne)
         /\ call.depth[p] = Clamp(call.clear[4])

\* A second render of no points, with clear depth 0.5, read 1.0 in channel 3.
C17_HalfDepthReadsOpaque ==
  /\ EmptyRenderRead /\ call.renders = MaxRenders
  /\ call.type = "float" /\ call.clear = <<1, 2, 3, 5>>
  /\ \A p \in Pixels : call.result[p] = <<1, 2, 3, AlphaOne>>

Matching == {call.held[i] : i \in 1 .. Len(call.held)} \cap DOMAIN call.blocks

\* C20: Render binds a held buffer only when its name is an active shader
\* storage block of the program, and to the binding slot of that block; a
\* held buffer of another name is skipped and is no error: when no GL call
\* fails Render succeeds and each matching buffer is bound to its slot, in
\* whatever order the buffers are visited.
C20_BindsMatchingBuffersOnly ==
  /\ (call.op = "Render") =>
       \A sl \in Slots :
         call.slots[sl] # "none" =>
           /\ call.slots[sl] \in Matching
           /\ call.blocks[call.slots[sl]].GL_BUFFER_BINDING = sl
  /\ (RasterizerRenderDone /\ ~call.glError /\ call.len = <<MaxPixels, 0>>) =>
       /\ call.ok
       /\ \A nm \in Matching : call.slots[call.blocks[nm].GL_BUFFER_BINDING] = nm
       /\ call.skipped = {call.held[i] : i \in 1 .. Len(call.held)} \ Matching

\* The unmatched buffer was visited first and skipped, the matching one
\* bound to slot 0, and Render succeeded.
C20_SkippedThenBound ==
  /\ RasterizerRenderDone /\ call.ok /\ ~call.glError
  /\ call.held = <<"geometry", "triangular_mesh">>
  /\ DOMAIN call.blocks = {"triangular_mesh"}
  /\ call.skipped = {"geometry"}
  /\ call.slots[0] = "triangular_mesh" /\ call.slots[1] = "none"

\* C21: after a successful SetShaderStorageBuffer the rasterizer holds one
\* buffer for the name, generated once however often the name has been set,
\* no other name shares it, and its data store is the data of this call,
\* nothing of an earlier and longer upload remaining.
C21_LatestUploadOnly ==
  (call.op = "SetShaderStorageBuffer") =>
    /\ \A nm \in HeldNames : call.generated[nm] <= 1
    /\ \A nm \in DOMAIN call.shader_storage_buffers :
         /\ call.generated[nm] = 1
         /\ \A other \in DOMAIN call.shader_storage_buffers :
              other # nm =>
                call.shader_storage_buffers[other] # call.shader_storage_buffers[nm]
    /\ (call.pc = "done" /\ call.ok) =>
         /\ call.name \in DOMAIN call.shader_storage_buffers
         /\ call.stores[call.shader_storage_buffers[call.name]] = call.data

\* The third upload under a name already set twice was shorter than the one
\* before it, and the buffer holds just that.
C21_ShorterReuploadSeen ==
  /\ call.op = "SetShaderStorageBuffer" /\ call.pc = "done" /\ call.ok
  /\ call.calls = MaxUploads /\ call.name = "triangular_mesh"
  /\ call.data = <<1>>
  /\ DOMAIN call.shader_storage_buffers = {"triangular_mesh"}
  /\ Len(call.stores) = 1 /\ call.stores[1] = <<1>>

\* C22: in Rasterizer::Render the first GPU call that fails, the resource
\* queries of the storage buffer loop included, ends the call with an error:
\* no later step runs.
C22_FirstErrorAborts ==
  (call.op = "Render" /\ call.glError) => (call.pc = "done" /\ ~call.ok)

\* The calls a successful render issues, with one bind for each held buffer
\* that was not skipped.
ExpectedLog ==
  StateCalls
    \o [k \in 1 .. (Len(call.held) - Cardinality(call.skipped)) |-> "bindBuffer"]
    \o <<"useProgram">> \o FramebufferCalls \o ClearCalls
    \o <<"draw", "readPixels">>

\* C23: a successful Render has issued, in this order: the blend, depth test
\* and cull state, the binds of the matching storage buffers, the activation
\* of the program, the bind of the framebuffer of its render targets, the
\* viewport of their width and height, clear colour and clear depth, the
\* clear, the draw and the readback; clear, draw and readback were of its own
\* framebuffer, whichever was bound before the call.
C23_StepsInOrderOnOwnFramebuffer ==
  (RasterizerRenderDone /\ call.ok) =>
    /\ call.log = ExpectedLog
    /\ call.framebuffer = "own"
    /\ ~call.foreignWritten
    /\ call.viewport = <<MaxPixels, 1>>
    /\ call.num_points = 0 => \A p \in Pixels : call.result[p] = call.color[p]

\* A render that drew, called with another framebuffer bound, succeeded on
\* its own framebuffer.
C23_RenderedAfterForeignBind ==
  /\ RasterizerRenderDone /\ call.ok
  /\ call.boundBefore = "other" /\ call.framebuffer = "own"
  /\ call.num_points > 0 /\ Len(call.held) = 2 /\ call.skipped = {}
  /\ call.log = ExpectedLog /\ ~call.foreignWritten

\* C27: a Render that fails because the length of the result buffer is not
\* width * height * 4 leaves the colour and the depth contents of the render
\* targets as they were before the call.
C27_FailedRenderLeavesTargets ==
  (RasterizerRenderDone /\ ~call.ok /\ ~call.glError /\ call.len # <<MaxPixels, 0>>) =>
    /\ call.color = call.before.color
    /\ call.depth = call.before.depth

ThreadsOf(c) == {t \in Threads : <<t, c>> \in current}

SharedContext == \E c \in Contexts : Cardinality(ThreadsOf(c)) > 1

TargetsCreateDone == call.op = "TargetsCreate" /\ call.pc = "done"

\* C16: when a step of RenderTargets::Create fails, Create returns an error
\* and no object, every renderbuffer and framebuffer the call generated has
\* been deleted, and the objects that were in the context before the call are
\* all still there.
C16_FailedCreateReleases ==
  (TargetsCreateDone /\ ~call.ok) =>
    /\ ~call.obj
    /\ gpu.rb = call.before.rb
    /\ gpu.fb = call.before.fb

(***************************************************************************)
(* ResourcePool: a bounded pool of reusable resources shared by workers.   *)
(* The factory is invoked lazily, on demand beyond the current pool size,  *)
(* up to the configured maximum.  Acquire hands out an idle resource or a  *)
(* newly created one, and blocks while there is neither; Release returns   *)
(* the resource to the idle set.  Acquisition is scoped: the lease is      *)
(* released on every exit path of the holder, a failed use included.       *)
(***************************************************************************)
NumWorkers == 3
PoolMaximum == 2
NoResource == 0

Workers == 1..NumWorkers
Resources == 1..PoolMaximum

EmptyPool ==
  [idle |-> {}, created |-> 0,
   pc |-> [w \in Workers |-> "out"],
   lease |-> [w \in Workers |-> NoResource],
   waited |-> [w \in Workers |-> FALSE],
   ok |-> [w \in Workers |-> TRUE],
   failed |-> {}]

Leased(p) == {p.lease[w] : w \in Workers} \ {NoResource}

\* A factory that is never refused.
AlwaysGrow(p) == TRUE
\* The factory may be invoked only while the pool is under its maximum.
CanGrow(p) == p.created < PoolMaximum

\* A release that drops the resource of a holder whose use failed.
ReturnedIfOk(idle, r, ok) == IF ok THEN idle \cup {r} ELSE idle
\* Release puts the resource back in the idle set, whatever the holder did.
Returned(idle, r, ok) == idle \cup {r}

Blocked(w) == pool.pc[w] = "acquire" /\ pool.waited[w]

\* A worker calls Acquire.
PoolAcquireCall(w) ==
  /\ pool.pc[w] = "out"
  /\ pool' = [pool EXCEPT !.pc[w] = "acquire", !.waited[w] = FALSE]
  /\ UNCHANGED poolFrame

\* Acquire finds neither an idle resource nor room to create one: it blocks.
PoolAcquireWait(w) ==
  /\ pool.pc[w] = "acquire"
  /\ ~pool.waited[w]
  /\ pool.idle = {}
  /\ ~CanGrow(pool)
  /\ pool' = [pool EXCEPT !.waited[w] = TRUE]
  /\ UNCHANGED poolFrame

\* Acquire hands out an idle resource.
PoolAcquireIdle(w) ==
  /\ pool.pc[w] = "acquire"
  /\ pool.idle # {}
  /\ \E r \in pool.idle :
       pool' = [pool EXCEPT !.idle = @ \ {r}, !.lease[w] = r, !.pc[w] = "use"]
  /\ UNCHANGED poolFrame

\* Acquire invokes the factory: the new resource is leased, or the factory's
\* error is returned and the pool does not grow.
PoolAcquireCreate(w) ==
  /\ pool.pc[w] = "acquire"
  /\ pool.idle = {}
  /\ CanGrow(pool)
  /\ \E made \in BOOLEAN :
       pool' = IF made
               THEN [pool EXCEPT !.created = @ + 1, !.lease[w] = pool.created + 1,
                                 !.pc[w] = "use"]
               ELSE [pool EXCEPT !.pc[w] = "out"]
  /\ UNCHANGED poolFrame

\* The holder uses the resource; the use succeeds or fails.
PoolUse(w) ==
  /\ pool.pc[w] = "use"
  /\ \E ok \in BOOLEAN :
       pool' = [pool EXCEPT !.ok[w] = ok, !.pc[w] = "release",
                            !.failed = IF ok THEN @ \ {pool.lease[w]}
                                       ELSE @ \cup {pool.lease[w]}]
  /\ UNCHANGED poolFrame

\* The scope of the lease ends: Release returns the resource.
PoolRelease(w) ==
  /\ pool.pc[w] = "release"
  /\ pool' = [pool EXCEPT !.idle = Returned(@, pool.lease[w], pool.ok[w]),
                          !.lease[w] = NoResource, !.pc[w] = "out"]
  /\ UNCHANGED poolFrame

PoolNext ==
  \/ \E w \in Workers : PoolAcquireCall(w)
  \/ \E w \in Workers : PoolAcquireWait(w)
  \/ \E w \in Workers : PoolAcquireIdle(w)
  \/ \E w \in Workers : PoolAcquireCreate(w)
  \/ \E w \in Workers : PoolUse(w)
  \/ \E w \in Workers : PoolRelease(w)

\* C28: when making the context current fails inside
\* RasterizerWithContext::Render or ::Create, no GPU call is issued after the
\* failure (the call does not get past its first GL step) and the operation
\* reports the failure.
C28_FailedMakeCurrentStops ==
  \A t \in Threads :
    (th[t].op \in {"Render", "Create"} /\ th[t].mc = "err") =>
      /\ th[t].pc \notin {"use", "targets"}
      /\ th[t].pc = "done" => ~th[t].ok

SetBufferDone == InSetBuffer("done")

\* C31: ShaderStorageBuffer::Upload leaves the generic shader-storage binding
\* point unbound when it returns after its bind, on success and on failure of
\* glBufferData alike; when the bind itself fails the binding is what it was;
\* and at no point of the call is an indexed slot bound by BindBufferBase
\* changed.
C31_UploadLeavesUnbound ==
  (call.op = "SetShaderStorageBuffer" /\ call.pc # "based") =>
    /\ call.indexed = call.indexedBefore
    /\ call.pc = "data" => call.bound = call.shader_storage_buffers[call.name]
    /\ (call.pc = "done" /\ call.failedAt \in {"none", "data"}) => call.bound = 0
    /\ (call.pc = "done" /\ call.failedAt \in {"create", "bind"}) =>
         call.bound = call.boundBefore

\* An upload whose glBufferData failed returned with the binding point
\* unbound, which BindBufferBase had left bound, and with the slots as they were.
C31_FailedUploadUnbound ==
  /\ SetBufferDone /\ call.failedAt = "data"
  /\ call.boundBefore # 0 /\ call.bound = 0
  /\ \E index \in Slots : call.indexed[index] # 0

\* C36: a failed SetShaderStorageBuffer leaves the rasterizer's mapping of
\* names to buffers as it was: a name that was not held before the call is
\* not held after it.
C36_FailedSetBufferKeepsMapping ==
  (SetBufferDone /\ ~call.ok) =>
    DOMAIN call.shader_storage_buffers = call.heldBefore

RasterizerCreateDone == call.op = "RasterizerCreate" /\ call.pc = "done"

\* C32: when Rasterizer::Create fails at the creation of the render targets,
\* after the program was built, it returns the error, yields no Rasterizer,
\* and the program it built is deleted.
C32_FailedTargetsDeletesProgram ==
  (RasterizerCreateDone /\ call.failedAt = "targets") =>
    /\ ~call.ok
    /\ ~call.rasterizer
    /\ gpu.prog = "deleted"
    /\ \A k \in 1..MaxShaders : gpu.sh[k] = "deleted"

\* The creation failed after renderbuffers were generated, with the program
\* linked before.
C32_TargetsFailedAfterProgram ==
  /\ RasterizerCreateDone /\ call.failedAt = "targets"
  /\ gpu.rb # {} /\ gpu.prog = "deleted" /\ ~call.rasterizer

\* C33: every shader object created during Program::Create is deleted
\* exactly once on every path: glDeleteShader is never called twice on a
\* shader, and when Program::Create returns every shader it created has been
\* deleted.
C33_ShaderDeletedOnce ==
  call.op = "ProgramCreate" =>
    \A k \in 1..MaxShaders :
      /\ gpu.del[k] <= 1
      /\ (call.pc = "done" /\ gpu.sh[k] # "none") =>
           (gpu.sh[k] = "deleted" /\ gpu.del[k] = 1)

\* C34: when Program::Create returns, after any calls before it in the
\* context, no GL error is pending, and the call did not fail on an error
\* that none of its own statements raised.
C34_NoErrorLeftPending ==
  (call.op = "ProgramCreate" /\ call.pc = "done") =>
    /\ ~gpu.err
    /\ ~call.stale

\* C35: RenderTargets::ReadPixels with a buffer of the right size returns
\* the contents of the colour buffer of its own render target, also when
\* another render target was created or bound after this one.
C35_ReadsOwnColourBuffer ==
  (ReadPixelsDone /\ call.ok) => call.buffer = "own pixels"

\* C37: when Rasterizer::SetUniformMatrix or Rasterizer::Render returns, on
\* success and on failure alike, no program is installed as the active
\* program of the context.
C37_NoProgramLeftActive ==
  (SetUniformMatrixDone \/ RasterizerRenderDone) => ~call.used

\* A step of thread t inside RasterizerWithContext::Create or ::Render.
BoundCallStep(t) == th[t].op \in {"Create", "Render"} /\ th'[t] # th[t]

\* C38: RasterizerWithContext::Create and ::Render do not restore the
\* binding of the caller: when the thread had another context current at the
\* call and the native calls that bind and unbind the instance's context
\* worked, the thread has no current context when the call returns; no step
\* of the call changes the binding of another thread.
C38_CallerBindingNotRestored ==
  /\ [](\A t \in Threads :
          (/\ th[t].op \in {"Create", "Render"} /\ th[t].pc = "done"
           /\ th[t].prev \notin {NoContext, th[t].obj}
           /\ th[t].mc = "ok" /\ th[t].rel = "ok")
            => CurrentOn(t) = {})
  /\ [][\A t \in Threads : BoundCallStep(t) => OthersKeep(t)]_vars

\* A Render returned on a thread that had another context current at the
\* call: the thread has none now, and another thread still has its own.
C38_RenderDroppedCallerContext ==
  \E t, u \in Threads :
    /\ t # u
    /\ th[t].op = "Render" /\ th[t].pc = "done"
    /\ th[t].prev \notin {NoContext, th[t].obj}
    /\ th[t].mc = "ok" /\ th[t].rel = "ok"
    /\ CurrentOn(t) = {}
    /\ CurrentOn(u) # {}

\* C25: no resource of the pool is held by two leases at once, a leased
\* resource is not idle, and the number of resources the factory created
\* never exceeds the configured maximum.
C25_OneLeasePerResource ==
  /\ \A v, w \in Workers :
       (v # w /\ pool.lease[v] # NoResource) => pool.lease[v] # pool.lease[w]
  /\ Leased(pool) \cap pool.idle = {}
  /\ pool.created <= PoolMaximum
  /\ Leased(pool) \cup pool.idle \subseteq 1..pool.created

\* The pool is at its maximum, every resource is leased, and a worker is blocked.
C25_FullPoolWithWaiter ==
  /\ pool.created = PoolMaximum
  /\ Cardinality(Leased(pool)) = PoolMaximum
  /\ \E w \in Workers : Blocked(w)

Prebuilt == {1}
Created == Standalone \cup Prebuilt

Init ==
  /\ current = {}
  /\ egl = [c \in Contexts |->
              [context |-> c \in Created, surface |-> c \in Created,
               display |-> c \in Created]]
  /\ teardown = [c \in Contexts |-> <<>>]
  /\ th = [t \in Threads |-> Idle]
  /\ faults = 0
  /\ aborted = FALSE
  /\ glc = [c \in Contexts |->
              IF c \in Prebuilt
              THEN [EmptyGl EXCEPT !.prog = TRUE, !.target = TRUE, !.boundFb = TRUE]
              ELSE EmptyGl]
  /\ inst = [i \in Instances |->
               IF i \in Prebuilt
               THEN [state |-> "live", program |-> TRUE, targets |-> TRUE,
                     buffers |-> {}, clear |-> i]
               ELSE [state |-> "absent", program |-> FALSE, targets |-> FALSE,
                     buffers |-> {}, clear |-> 0]]
  /\ result = [t \in Threads |-> <<0, FALSE>>]
  /\ num_successes = [t \in Threads |-> 0]
  /\ renders = [t \in Threads |-> 0]
  /\ red_clear = Cardinality(Prebuilt)
  /\ ssbUsed = FALSE
  /\ ops = 0
  /\ call = UIdle
  /\ nat = {}
  /\ gpu = NoObjects
  /\ pool = EmptyPool

Next ==
  \E t \in Threads :
    \/ \E c \in Standalone : CtxCall(t, c)
    \/ CtxMakeCurrent(t)
    \/ CtxRelease(t)
    \/ DtorRelease(t)
    \/ DtorDestroyContext(t)
    \/ DtorDestroySurface(t)
    \/ DtorTerminate(t)
    \/ CtxDestroyed(t)
    \/ \E i \in Instances : CreateCall(t, i)
    \/ CreateEgl(t)
    \/ CreateMakeCurrent(t)
    \/ CreateProgram(t)
    \/ CreateTargets(t)
    \/ CreateRelease(t)
    \/ CreateUnwindProgram(t)
    \/ \E i \in Instances : RenderCall(t, i)
    \/ RenderMakeCurrent(t)
    \/ RenderSetState(t)
    \/ RenderUse(t)
    \/ RenderBindFramebuffer(t)
    \/ RenderClearColor(t)
    \/ RenderClear(t)
    \/ RenderDraw(t)
    \/ RenderRead(t)
    \/ RenderUnuse(t)
    \/ RenderRelease(t)
    \/ RenderReturn(t)
    \/ \E i \in Instances : DestroyCall(t, i)
    \/ DestroyMakeCurrent(t)
    \/ DestroyResetProgram(t)
    \/ DestroyResetTargets(t)
    \/ DestroyResetBuffers(t)
    \/ DestroyEnd(t)
    \/ \E i \in Instances : SetUniformCall(t, i)
    \/ SetUniformValidate(t)
    \/ SetUniformQueryType(t)
    \/ SetUniformUpload(t)
    \/ \E i \in Instances : SsbCall(t, i)
    \/ SsbCreate(t)
    \/ SsbUpload(t)
    \/ Return(t)

Spec == Init /\ [][Next]_vars

\* The threads also call Render on an instance another thread is rendering.
RaceNext ==
  \/ Next
  \/ \E t \in Threads, i \in Instances : RenderConcurrentCall(t, i)

RaceSpec == Init /\ [][RaceNext]_vars

UnitNext ==
  \/ EglCreateCall
  \/ EglCreateDisplay
  \/ EglCreateBindApi
  \/ EglCreateChooseConfig
  \/ EglCreateSurface
  \/ EglCreateContext
  \/ EglCreateConstruct
  \/ EglCreateUnwind
  \/ ProgramCreateCall
  \/ ProgramCreateProgram
  \/ ProgramCreateShader
  \/ ProgramCompile
  \/ ProgramAttach
  \/ ProgramLink
  \/ ProgramShaderCleanups
  \/ ProgramCleanup
  \/ TargetsCreateCall
  \/ TargetsGenColor
  \/ TargetsStoreColor
  \/ TargetsGenDepth
  \/ TargetsStoreDepth
  \/ TargetsGenFrame
  \/ TargetsAttach
  \/ TargetsConstruct
  \/ TargetsUnwind
  \/ ReadPixelsCall
  \/ ReadPixelsCheck
  \/ ReadPixelsRead
  \/ UniformMatrixCall
  \/ UniformMatrixLength
  \/ UniformMatrixType
  \/ UniformMatrixLocation
  \/ UniformMatrixUse
  \/ UniformMatrixSet
  \/ RasterizerRenderCall
  \/ RasterizerState
  \/ RasterizerBindBuffer
  \/ RasterizerUse
  \/ RasterizerFramebuffer
  \/ RasterizerClear
  \/ RasterizerDraw
  \/ RasterizerRead
  \/ RasterizerRenderAgain
  \/ SetBufferCall
  \/ SetBufferCreate
  \/ SetBufferBind
  \/ SetBufferData
  \/ SetBufferBindBase
  \/ ProgramCreateAgain
  \/ RasterizerCreateCall
  \/ RasterizerCreateTargets
  \/ RasterizerCreateConstruct
  \/ SetBufferAgain
  \/ UnitReturn

UnitSpec == Init /\ [][UnitNext]_vars

\* The workers of the resource pool.
PoolSpec == Init /\ [][PoolNext]_vars

\* Fair scheduling: a holder goes on to use and release its lease, and a
\* blocked worker that can be handed a resource again and again is handed one.
PoolLiveSpec ==
  /\ Init
  /\ [][PoolNext]_vars
  /\ \A w \in Workers :
       /\ WF_vars(PoolUse(w))
       /\ WF_vars(PoolRelease(w))
       /\ SF_vars(PoolAcquireIdle(w))
====
